---- MODULE Spec2Model ----
(***************************************************************************)
(* Storage-connector registry and fan-out feedback handler of StarMark.    *)
(*                                                                         *)
(* StorageRegistry  (storage/StorageRegistry.ts, src/unnamed/part_003)     *)
(* FeedbackHandler  (storage/FeedbackHandler.ts, src/unnamed/part_004)     *)
(*                                                                         *)
(* One processFeedback call is followed from its invocation to the moment  *)
(* its promise settles.  The connectors are the environment: each call of  *)
(* detect(), health() and store() is answered by a nondeterministic        *)
(* outcome (a value, a synchronous throw, a rejection, or no answer ever). *)
(***************************************************************************)
EXTENDS Integers, Sequences, FiniteSets, TLC

\* ------------------------------------------------------------------ bounds
\* Number of distinct connector names that can be registered.
MaxConn == 2

\* Number of register() calls made on the registry.
MaxRegs == 2

\* Most connectors registered on a handler that takes two submissions at once.
MaxShared == 1

\* Connector names (StorageConnector.name).
Conn == 1..MaxConn

\* No connector object: null, or a loop variable outside its loop.  Connector
\* objects are [name, id]: the name they declare and their identity, the
\* ordinal of the register() call that brought them in.
NoConnector == [name |-> 0, id |-> 0]

\* ------------------------------------------------------------- vocabulary
\* A JavaScript property that is undefined.
Undefined == "undefined"

\* Values Math.random() lets generateCorrelationId produce.
CorrelationIds == {"cid-a", "cid-b"}

\* How a connector answers detect(): resolves true / false, throws
\* synchronously, or returns a rejected promise.
DetectOutcomes == {"true", "false", "throw", "reject"}

\* How a connector answers health(): resolves true / false, throws an Error,
\* rejects with an Error, or throws a value that is not an Error.
HealthOutcomes == {"true", "false", "throw", "reject", "throwValue"}

\* How a connector answers store(): four StorageResult values, a
\* synchronous throw of an Error, a promise rejected with an Error, or a
\* thrown value that is not an Error.
StoreOutcomes ==
  {"ok", "failRetry", "failNoRetry", "failSilent", "throw", "reject", "throwValue"}

Throws(o) == o \in {"throw", "reject", "throwValue"}

\* The StorageResult a store() outcome stands for.
StorageResultOf(o) ==
  CASE o = "ok"          -> [success |-> TRUE,  id |-> "stored-id", error |-> Undefined,
                             retryable |-> Undefined, metadata |-> "stored-metadata"]
    [] o = "failRetry"   -> [success |-> FALSE, id |-> Undefined, error |-> "store failed",
                             retryable |-> "true", metadata |-> Undefined]
    [] o = "failNoRetry" -> [success |-> FALSE, id |-> Undefined, error |-> "store failed",
                             retryable |-> "false", metadata |-> "failure-metadata"]
    [] o = "failSilent"  -> [success |-> FALSE, id |-> Undefined, error |-> Undefined,
                             retryable |-> Undefined, metadata |-> Undefined]

\* Message of the Error a connector throws or rejects with.
ThrownMessage == "connector threw"

\* error instanceof Error ? error.message : "Unknown error", for the value
\* thrown under outcome o.
MessageOf(o) == IF o = "throwValue" THEN "Unknown error" ELSE ThrownMessage

\* ------------------------------------------------------------------ state
VARIABLES
  registry,       \* StorageRegistry.connectors: the Map's values in key insertion order
  lastReg,        \* per name, the id of the connector last passed to register()
  pc,             \* position of the processFeedback call
  correlationId,  \* const correlationId of the call
  di,             \* detectAvailable: index of the connector being probed
  connector,      \* detectAvailable: the loop variable, whose detect() is in flight
  probes,         \* what each probed connector answered, in probe order
  available,      \* detectAvailable: const available / availableConnectors
  tasks,          \* one processWithConnector invocation per available connector
  result,         \* the FeedbackHandlerResult the call resolved to
  settled,        \* state of the promise processFeedback returned
  hc,             \* the getHealthStatus()/checkHealth() call: position, loop state, result
  call,           \* one store() or health() call on a LinearConnector or an AstroDbConnector
  req,            \* one POST /api/feedback request: position, body, environment, response
  envq,           \* one call of CloudflareEnvAdapter or createFromEnvironment: inputs, result
  calls,          \* two processFeedback calls in flight on the same handler
  names,          \* what getRegisteredConnectors() returned
  feedback,       \* the feedback record of the processFeedback call
  modal,          \* the feedback modal of a page: its script's variables and the DOM it drives
  widget          \* the feedback widget of a page: its clicks and their waitForModal chains

\* The state of the calls made beside processFeedback.
otherCalls == <<hc, call>>

\* The state of the endpoint, of the environment adapter and of the second
\* mode of use of the handler (two submissions at once).
\* The state of the page's client scripts.
clientState == <<modal, widget>>

sideRest == <<req, envq, calls, names, clientState>>

sideState == <<req, envq, calls, names, feedback, clientState>>

vars == <<registry, lastReg, pc, correlationId, di, connector, probes, available, tasks,
          result, settled, hc, call, req, envq, calls, names, feedback, modal, widget>>

NoResult == [success |-> FALSE, correlationId |-> Undefined, error |-> Undefined,
             results |-> <<>>, present |-> FALSE]

\* The feedback record a caller submits.
Feedbacks ==
  {[page |-> "/docs/intro", category |-> "Typo", comment |-> "teh"]}

\* No feedback record.
NoRecord == [page |-> Undefined, category |-> Undefined, comment |-> Undefined]

\* No call made: the record the caller passed (given), the fields the object
\* has now, and the argument store() of each task was called with.
NoFeedback == [given |-> NoRecord, now |-> NoRecord, passed |-> [i \in Conn |-> NoRecord]]

\* Variant: the comment is trimmed before the record is stored.
StoreArgumentTrimmed(fb) == [fb EXCEPT !.comment = "trimmed"]

\* connector.store(feedback): the argument is the parameter itself.
StoreArgument(fb) == fb

NoEntry == [success |-> FALSE, id |-> Undefined, error |-> Undefined,
            retryable |-> Undefined, healthy |-> FALSE,
            metadata |-> Undefined]

\* ----------------------------------------------------------- the registry
\* Number of register() calls made so far.
RegCount == CHOOSE m \in 0..MaxRegs : /\ \A n \in Conn : lastReg[n] <= m
                                      /\ m = 0 \/ \E n \in Conn : lastReg[n] = m

\* this.connectors.has(name)
InRegistry(c) == \E k \in 1..Len(registry) : registry[k].name = c

\* Variant: the registry is a list a connector is appended to, an earlier
\* connector of the same name is kept alongside.
registerAppend(reg, c) == Append(reg, c)

\* register(): Map.set replaces the value of an existing key, which keeps
\* its place in the iteration order, and appends a new key.
register(reg, c) ==
  IF \E k \in 1..Len(reg) : reg[k].name = c.name
    THEN [k \in 1..Len(reg) |-> IF reg[k].name = c.name THEN c ELSE reg[k]]
    ELSE Append(reg, c)

\* getByName(): this.connectors.get(name) || null
getByName(reg, n) ==
  IF \E k \in 1..Len(reg) : reg[k].name = n
    THEN reg[CHOOSE k \in 1..Len(reg) : reg[k].name = n]
    ELSE NoConnector

\* getAllConnectors(): Array.from(this.connectors.values())
getAllConnectors(reg) == reg

\* Variant: the loop body without its try/catch, a throwing detect() escapes.
DetectStepNoCatch(av, c, o) ==
  IF o = "true" THEN [available |-> Append(av, c), exc |-> FALSE]
                ELSE [available |-> av, exc |-> Throws(o)]

\* Variant: the answer of detect() is not tested, every connector whose
\* detect() resolved is pushed.
DetectStepUnchecked(av, c, o) ==
  IF Throws(o) THEN [available |-> av, exc |-> FALSE]
               ELSE [available |-> Append(av, c), exc |-> FALSE]

\* detectAvailable(), one iteration of the for loop: the try block pushes the
\* connector when detect() resolved true; the catch block logs and continues.
DetectStep(av, c, o) ==
  IF o = "true" THEN [available |-> Append(av, c), exc |-> FALSE]
                ELSE [available |-> av, exc |-> FALSE]

\* ------------------------------------------------------------ the handler
\* Variant: the empty check is missing.
NoneAvailableUnchecked(av) == FALSE

\* if (availableConnectors.length === 0)
NoneAvailable(av) == Len(av) = 0

\* Variant: the early return forgets the correlation id.
NoConnectorsResultNoId(cid) ==
  [success |-> FALSE, correlationId |-> Undefined,
   error |-> "No storage connectors available", results |-> <<>>, present |-> TRUE]

\* The early return of processFeedback.
NoConnectorsResult(cid) ==
  [success |-> FALSE, correlationId |-> cid, error |-> "No storage connectors available",
   results |-> <<>>, present |-> TRUE]

\* The catch block of processFeedback.
CatchResult(cid) ==
  [success |-> FALSE, correlationId |-> cid, error |-> ThrownMessage,
   results |-> <<>>, present |-> TRUE]

\* Variant: a for loop that awaits each connector in turn; only the first
\* invocation has started when the handler first suspends.
StartTasksSerial(av) ==
  [i \in 1..Len(av) |->
     IF i = 1 THEN [conn |-> av[i], storedTo |-> 0, storeCalls |-> 0,
                    st |-> "health", health |-> "pending", store |-> "notcalled",
                    entry |-> [success |-> FALSE, id |-> Undefined, error |-> Undefined,
                               retryable |-> Undefined, healthy |-> FALSE,
                               metadata |-> Undefined]]
              ELSE [conn |-> av[i], storedTo |-> 0, storeCalls |-> 0,
                    st |-> "waiting", health |-> "notcalled", store |-> "notcalled",
                    entry |-> [success |-> FALSE, id |-> Undefined, error |-> Undefined,
                               retryable |-> Undefined, healthy |-> FALSE,
                               metadata |-> Undefined]]]

\* availableConnectors.map(processWithConnector): every invocation runs up
\* to its first await, that is, calls connector.health().
StartTasks(av) ==
  [i \in 1..Len(av) |-> [conn |-> av[i], storedTo |-> 0, storeCalls |-> 0,
                          st |-> "health", health |-> "pending", store |-> "notcalled",
                          entry |-> NoEntry]]

\* Variant: the health flag is not taken from the health() answer.
TryEntryAlwaysHealthy(isHealthy, r) ==
  [success |-> r.success, id |-> r.id, error |-> r.error, retryable |-> r.retryable,
   healthy |-> TRUE, metadata |-> r.metadata]

\* Variant: a failure is always reported as retryable.
TryEntryReclassified(isHealthy, r) ==
  [success |-> r.success, id |-> r.id, error |-> r.error,
   retryable |-> IF r.success THEN r.retryable ELSE "true",
   healthy |-> isHealthy, metadata |-> r.metadata]

\* processWithConnector, the return of the try block.
TryEntry(isHealthy, r) ==
  [success |-> r.success, id |-> r.id, error |-> r.error, retryable |-> r.retryable,
   healthy |-> isHealthy, metadata |-> r.metadata]

\* Variant: the catch block returns no error message.
CatchEntryNoError(o) ==
  [success |-> FALSE, id |-> Undefined, error |-> Undefined, retryable |-> "true",
   healthy |-> FALSE, metadata |-> Undefined]

\* processWithConnector, the return of the catch block.
CatchEntry(o) ==
  [success |-> FALSE, id |-> Undefined, error |-> MessageOf(o), retryable |-> "true",
   healthy |-> FALSE, metadata |-> Undefined]

\* Variant: store() is called on the connector the registry holds under the
\* name at that moment, not on the connector the task was started with.
AfterHealthByName(t, o) ==
  IF Throws(o)
    THEN [t EXCEPT !.st = "fulfilled", !.health = o, !.entry = CatchEntry(o)]
    ELSE [t EXCEPT !.st = "store", !.health = o, !.store = "pending",
                   !.storedTo = getByName(registry, t.conn.name).id,
                   !.storeCalls = t.storeCalls + 1]

\* processWithConnector after health() settled with outcome o: a value is
\* kept as isHealthy and store() is called; a throw lands in the catch block.
AfterHealth(t, o) ==
  IF Throws(o)
    THEN [t EXCEPT !.st = "fulfilled", !.health = o, !.entry = CatchEntry(o)]
    ELSE [t EXCEPT !.st = "store", !.health = o, !.store = "pending",
                   !.storedTo = t.conn.id, !.storeCalls = t.storeCalls + 1]

\* Variant: a store() that returned a retryable failure is called once more.
AfterStoreRetry(t, o) ==
  IF Throws(o)
    THEN [t EXCEPT !.st = "fulfilled", !.store = o, !.entry = CatchEntry(o)]
    ELSE IF StorageResultOf(o).retryable = "true" /\ t.storeCalls < 2
      THEN [t EXCEPT !.store = "pending", !.storeCalls = t.storeCalls + 1]
      ELSE [t EXCEPT !.st = "fulfilled", !.store = o,
                     !.entry = TryEntry(t.health = "true", StorageResultOf(o))]

\* processWithConnector after store() settled with outcome o.
AfterStore(t, o) ==
  IF Throws(o)
    THEN [t EXCEPT !.st = "fulfilled", !.store = o, !.entry = CatchEntry(o)]
    ELSE [t EXCEPT !.st = "fulfilled", !.store = o,
                   !.entry = TryEntry(t.health = "true", StorageResultOf(o))]

\* Promise.allSettled resolves once every promise has settled.
Settled(t) == t.st \in {"fulfilled", "rejected"}

\* Variant: Promise.race / Promise.any, the first settled promise resumes.
AnySettled(ts) == \E i \in 1..Len(ts) : Settled(ts[i])

AllSettled(ts) == \A i \in 1..Len(ts) : Settled(ts[i])

\* results.map((result, index) => ...), the "rejected" branch.
RejectedEntry ==
  [success |-> FALSE, id |-> Undefined, error |-> ThrownMessage, retryable |-> "true",
   healthy |-> FALSE, metadata |-> Undefined]

\* Variant: the name is read from the registry's list, not the available one.
ProcessedResultsByRegistry(av, ts) ==
  [i \in 1..Len(ts) |->
     LET e == IF ts[i].st = "fulfilled" THEN ts[i].entry ELSE RejectedEntry IN
       [connector |-> registry[i].name, success |-> e.success, id |-> e.id, error |-> e.error,
        retryable |-> e.retryable, healthy |-> e.healthy, metadata |-> e.metadata]]

\* results.map((result, index) => ...): the name of availableConnectors[index]
\* with the value of a fulfilled promise, or with the entry of a rejected one.
ProcessedResults(av, ts) ==
  [i \in 1..Len(ts) |->
     LET e == IF ts[i].st = "fulfilled" THEN ts[i].entry ELSE RejectedEntry IN
       [connector |-> av[i].name, success |-> e.success, id |-> e.id, error |-> e.error,
        retryable |-> e.retryable, healthy |-> e.healthy, metadata |-> e.metadata]]

\* Variant: processedResults.every((r) => r.success)
hasSuccessEvery(rs) == \A i \in 1..Len(rs) : rs[i].success

\* Variant: processedResults.length > 0
hasSuccessNonEmpty(rs) == Len(rs) > 0

\* processedResults.some((r) => r.success)
hasSuccess(rs) == \E i \in 1..Len(rs) : rs[i].success

\* Variant: the aggregate carries a top-level error when every attempt failed.
AggregatedResultErrorOnFailure(cid, rs) ==
  [success |-> hasSuccess(rs), correlationId |-> cid,
   error |-> IF hasSuccess(rs) THEN Undefined ELSE "All storage connectors failed",
   results |-> rs, present |-> TRUE]

\* The final return of the try block of processFeedback.
AggregatedResult(cid, rs) ==
  [success |-> hasSuccess(rs), correlationId |-> cid, error |-> Undefined,
   results |-> rs, present |-> TRUE]

\* ------------------------------------------------------------ checkHealth
\* The state of the processFeedback call.
feedbackCall == <<pc, correlationId, di, connector, probes, available, tasks, result,
                  settled>>

\* No getHealthStatus() call has been made; healthResults is the new Map, a
\* name without a key maps to "unset".
NoHealthCall ==
  [pc |-> "idle", i |-> 0, connector |-> NoConnector,
   healthResults |-> [n \in Conn |-> "unset"], answers |-> <<>>, settled |-> "pending"]

\* Variant: the loop body without its try/catch, a throwing health() escapes.
HealthStepNoCatch(hr, c, o) ==
  IF Throws(o) THEN [healthResults |-> hr, exc |-> TRUE]
               ELSE [healthResults |-> [hr EXCEPT ![c.name] = o], exc |-> FALSE]

\* checkHealth(), one iteration of the for loop: health() of connector c
\* settled with outcome o. The answer is set under the connector's name, a
\* throw or a rejection is caught, logged and sets false.
HealthStep(hr, c, o) ==
  IF Throws(o) THEN [healthResults |-> [hr EXCEPT ![c.name] = "false"], exc |-> FALSE]
               ELSE [healthResults |-> [hr EXCEPT ![c.name] = o], exc |-> FALSE]

\* ------------------------------------------- LinearConnector, AstroDbConnector
\* String.prototype.includes: needle occurs in msg, case-sensitively.
includes(msg, needle) ==
  \E k \in 1..(Len(msg) - Len(needle) + 1) : SubSeq(msg, k, k + Len(needle) - 1) = needle

\* A thrown value: an Error with its message, or a value that is no Error.
Error(m) == [kind |-> "Error", message |-> m]
NonError(m) == [kind |-> "other", message |-> m]
NoError == [kind |-> "none", message |-> Undefined]

\* What fetch() rejects with: the TypeError of the runtime (Node, Chrome,
\* Firefox, Safari) or, from a stubbed fetch, a value that is no Error.
FetchRejections ==
  {Error("fetch failed"), Error("Failed to fetch"),
   Error("NetworkError when attempting to fetch resource."), Error("Load failed"),
   NonError("aborted")}

\* The response statuses and, per status, the status texts: the standard
\* reason phrase, or the empty text of HTTP/2.
Statuses == {200, 400, 401, 403, 429, 500}

ReasonPhrase(status) ==
  CASE status = 200 -> "OK"
    [] status = 400 -> "Bad Request"
    [] status = 401 -> "Unauthorized"
    [] status = 403 -> "Forbidden"
    [] status = 429 -> "Too Many Requests"
    [] OTHER -> "Internal Server Error"

StatusTexts(status) == {ReasonPhrase(status), ""}

\* response.ok
ok(status) == status >= 200 /\ status <= 299

\* The first message of the errors array of a GraphQL answer.
GraphQLMessages ==
  {"Authentication required, not authenticated", "Authentication failed",
   "Rate limit exceeded", "Entity not found: Team", "Argument Validation Error"}

\* What response.json() gives: a parse failure, or a body with its errors
\* array, data.viewer and data.issueCreate (absent, success false, success
\* true without an issue, success true with the issue).
ParseFailure == [parsed |-> FALSE, errors |-> <<>>, viewer |-> FALSE, issueCreate |-> "absent"]

Bodies ==
  {ParseFailure} \cup
  {[parsed |-> TRUE, errors |-> e, viewer |-> v, issueCreate |-> ic] :
     e \in {<<>>} \cup {<<m>> : m \in GraphQLMessages},
     v \in BOOLEAN,
     ic \in {"absent", "failed", "noIssue", "created"}}

\* Variant: the 403 test is missing from the authorization check.
isRetryableErrorNo403(error) ==
  IF error.kind = "Error"
    THEN IF includes(error.message, "fetch") \/ includes(error.message, "network")
           THEN "true"
         ELSE IF includes(error.message, "rate limit") \/ includes(error.message, "429")
           THEN "true"
         ELSE IF includes(error.message, "Authentication") \/ includes(error.message, "401")
           THEN "false"
         ELSE "true"
    ELSE "true"

\* LinearConnector.isRetryableError
isRetryableError(error) ==
  IF error.kind = "Error"
    THEN IF includes(error.message, "fetch") \/ includes(error.message, "network")
           THEN "true"
         ELSE IF includes(error.message, "rate limit") \/ includes(error.message, "429")
           THEN "true"
         ELSE IF \/ includes(error.message, "Authentication")
                 \/ includes(error.message, "401")
                 \/ includes(error.message, "403")
           THEN "false"
         ELSE "true"
    ELSE "true"

\* The promise a connector call returned: pending, resolved to a
\* StorageResult (store) or to a boolean (health), or rejected.
NoOutcome ==
  [settled |-> "pending", success |-> FALSE, id |-> Undefined, error |-> NoError,
   retryable |-> Undefined, value |-> Undefined]

Rejected(e) == [NoOutcome EXCEPT !.settled = "rejected", !.error = e]

Stored(id) == [NoOutcome EXCEPT !.settled = "resolved", !.success = TRUE, !.id = id]

Answered(b) ==
  [NoOutcome EXCEPT !.settled = "resolved", !.value = IF b THEN "true" ELSE "false"]

\* Variant: store() without its try/catch, the error leaves store().
LinearStoreCatchMissing(e) == Rejected(e)

\* LinearConnector.store, the catch block.
LinearStoreCatch(e) ==
  [NoOutcome EXCEPT !.settled = "resolved", !.success = FALSE, !.error = e,
                    !.retryable = isRetryableError(e)]

\* Variant: health() without its try/catch, the error leaves health().
LinearHealthCatchMissing(e) == Rejected(e)

\* LinearConnector.health, the catch block.
LinearHealthCatch(e) == Answered(FALSE)

\* Variant: the catch block reports a new Error in place of the caught one.
AstroDbStoreCatchWrapped(e) ==
  [NoOutcome EXCEPT !.settled = "resolved", !.success = FALSE,
                    !.error = Error("Failed to store feedback"), !.retryable = "true"]

\* AstroDbConnector.store, the catch block.
AstroDbStoreCatch(e) ==
  [NoOutcome EXCEPT !.settled = "resolved", !.success = FALSE, !.error = e,
                    !.retryable = "true"]

\* AstroDbConnector.health, the catch block.
AstroDbHealthCatch(e) == Answered(FALSE)

\* The catch block of the method in flight.
Catch(c, e) ==
  CASE c.connector = "linear" /\ c.op = "store" -> LinearStoreCatch(e)
    [] c.connector = "linear" /\ c.op = "health" -> LinearHealthCatch(e)
    [] c.connector = "astrodb" /\ c.op = "store" -> AstroDbStoreCatch(e)
    [] OTHER -> AstroDbHealthCatch(e)

\* makeRequest after fetch() resolved: a status that is not ok throws.
HttpError(status, statusText) == Error("HTTP " \o ToString(status) \o ": " \o statusText)

\* makeRequest after response.json() settled: a parse failure or a non-empty
\* errors array throws, otherwise the body is returned.
JsonError(body) ==
  IF ~body.parsed THEN Error("Unexpected token < in JSON at position 0")
  ELSE IF Len(body.errors) > 0 THEN Error(body.errors[1])
  ELSE NoError

\* LinearConnector.store after makeRequest returned the body.
LinearStoreResult(body) ==
  CASE body.issueCreate = "created" -> Stored("issue-1")
    [] body.issueCreate = "noIssue" ->
         LinearStoreCatch(Error("Cannot read properties of null (reading 'id')"))
    [] OTHER ->
         LinearStoreCatch(Error(IF Len(body.errors) > 0 THEN body.errors[1]
                                ELSE "Failed to create Linear issue"))

\* LinearConnector.health after makeRequest returned the body.
LinearHealthResult(body) == Answered(body.viewer)

\* No connector call has been made.
NoCall ==
  [connector |-> "none", op |-> "none", pc |-> "idle", deps |-> {},
   rejection |-> NoError, status |-> 0, statusText |-> Undefined, body |-> ParseFailure,
   db |-> "none", out |-> NoOutcome]

\* ------------------------------- CloudflareEnvAdapter, createFromEnvironment
\* The environment variables read, and a key that is never set.
EnvKeys == {"LINEAR_API_KEY", "LINEAR_TEAM_ID", "LINEAR_PROJECT_ID"}
OtherKey == "AUTH0_DOMAIN"

\* process.env and the env map of a Cloudflare context: a key is absent
\* (undefined), empty, or set. The two sources hold different values.
ProcessEnvs == [EnvKeys -> {Undefined, "", "from-process-env"}]
ContextEnvs == [EnvKeys -> {Undefined, "", "from-context-env"}]

NoEnv == [k \in EnvKeys |-> Undefined]

\* The context argument: none (undefined or null), a context without env,
\* or a context with an env map.
NoContext == [given |-> FALSE, hasEnv |-> FALSE, env |-> NoEnv]
Contexts ==
  {NoContext, [given |-> TRUE, hasEnv |-> FALSE, env |-> NoEnv]} \cup
  {[given |-> TRUE, hasEnv |-> TRUE, env |-> e] : e \in ContextEnvs}

\* env[key] of a plain object.
Lookup(env, key) == IF key \in DOMAIN env THEN env[key] ELSE Undefined

\* JavaScript truthiness of a string or undefined.
Truthy(v) == v # Undefined /\ v # ""

\* CloudflareEnvAdapter.isCloudflareEnvironment
isCloudflareEnvironment(context) == context.given /\ context.hasEnv

\* CloudflareEnvAdapter.getEnvironmentVariables
getEnvironmentVariables(context, processEnv) ==
  IF isCloudflareEnvironment(context) THEN context.env ELSE processEnv

\* Variant: a key missing from the context's env map is read from process.env.
getEnvFallback(key, context, processEnv) ==
  IF isCloudflareEnvironment(context) /\ Lookup(context.env, key) # Undefined
    THEN Lookup(context.env, key)
    ELSE Lookup(processEnv, key)

\* CloudflareEnvAdapter.getEnv
getEnv(key, context, processEnv) ==
  IF isCloudflareEnvironment(context)
    THEN Lookup(context.env, key)
    ELSE Lookup(processEnv, key)

\* CloudflareEnvAdapter.createConfig: a config key is set when the variable
\* it names is truthy.
createConfig(schema, context, processEnv) ==
  LET env == getEnvironmentVariables(context, processEnv) IN
    [configKey \in DOMAIN schema |->
       IF Truthy(Lookup(env, schema[configKey])) THEN Lookup(env, schema[configKey])
                                                 ELSE Undefined]

\* CloudflareEnvAdapter.getLinearConfig
getLinearConfig(context, processEnv) ==
  createConfig([apiKey |-> "LINEAR_API_KEY", teamId |-> "LINEAR_TEAM_ID",
                projectId |-> "LINEAR_PROJECT_ID"], context, processEnv)

\* context.astrodb: absent, or the dependencies handed over.
NoAstroDb == [given |-> FALSE, deps |-> {}]
AstroDbs == {NoAstroDb} \cup {[given |-> TRUE, deps |-> d] : d \in SUBSET {"db", "Feedback", "sql"}}

\* AstroDbConnector.detect() of a connector constructed with dependencies.
AstroDbDetect(deps) == "db" \in deps /\ "Feedback" \in deps

\* LinearConnector.detect() of a connector constructed with config.
LinearDetect(config) == Truthy(config.apiKey) /\ Truthy(config.teamId)

\* MockConnector.detect()
MockDetect == TRUE

\* Variant: the Astro DB connector is registered without asking detect().
createFromEnvironmentNoDetect(cloudflare, astrodb, processEnv) ==
  LET linearConfig == getLinearConfig(cloudflare, processEnv)
      r1 == IF Truthy(linearConfig.apiKey) /\ Truthy(linearConfig.teamId)
              THEN register(<<>>, [name |-> "linear", id |-> 1])
              ELSE <<>>
      r2 == IF astrodb.given
              THEN register(r1, [name |-> "astrodb", id |-> Len(r1) + 1])
              ELSE r1
      hasRealConnector == Len(r2) > 0
  IN  IF ~hasRealConnector THEN register(r2, [name |-> "mock", id |-> 1]) ELSE r2

\* Variant: no fallback, nothing is registered when nothing real is configured.
createFromEnvironmentNoFallback(cloudflare, astrodb, processEnv) ==
  LET linearConfig == getLinearConfig(cloudflare, processEnv)
      r1 == IF Truthy(linearConfig.apiKey) /\ Truthy(linearConfig.teamId)
              THEN register(<<>>, [name |-> "linear", id |-> 1])
              ELSE <<>>
  IN  IF astrodb.given /\ AstroDbDetect(astrodb.deps)
        THEN register(r1, [name |-> "astrodb", id |-> Len(r1) + 1])
        ELSE r1

\* Variant: the mock connector is registered in every case.
createFromEnvironmentAlwaysMock(cloudflare, astrodb, processEnv) ==
  LET linearConfig == getLinearConfig(cloudflare, processEnv)
      r1 == IF Truthy(linearConfig.apiKey) /\ Truthy(linearConfig.teamId)
              THEN register(<<>>, [name |-> "linear", id |-> 1])
              ELSE <<>>
      r2 == IF astrodb.given /\ AstroDbDetect(astrodb.deps)
              THEN register(r1, [name |-> "astrodb", id |-> Len(r1) + 1])
              ELSE r1
  IN  register(r2, [name |-> "mock", id |-> Len(r2) + 1])

\* FeedbackHandler.createFromEnvironment: the registry of the handler it
\* returns.
createFromEnvironment(cloudflare, astrodb, processEnv) ==
  LET linearConfig == getLinearConfig(cloudflare, processEnv)
      r1 == IF Truthy(linearConfig.apiKey) /\ Truthy(linearConfig.teamId)
              THEN register(<<>>, [name |-> "linear", id |-> 1])
              ELSE <<>>
      r2 == IF astrodb.given /\ AstroDbDetect(astrodb.deps)
              THEN register(r1, [name |-> "astrodb", id |-> Len(r1) + 1])
              ELSE r1
      hasRealConnector == Len(r2) > 0
  IN  IF ~hasRealConnector THEN register(r2, [name |-> "mock", id |-> 1]) ELSE r2

\* No call of the adapter has been made.
NoQuery ==
  [op |-> "none", context |-> NoContext, processEnv |-> NoEnv, astrodb |-> NoAstroDb,
   key |-> Undefined, value |-> Undefined, variables |-> NoEnv,
   config |-> [apiKey |-> Undefined, teamId |-> Undefined, projectId |-> Undefined],
   registry |-> <<>>]

\* ------------------------------------------------------ POST /api/feedback
\* The fields of a request body that FeedbackSchema requires, each absent,
\* present and invalid, or valid.
Pages == {Undefined, "", "docs/page", "/docs/page"}
Categories == {Undefined, "Nonsense", "Bug"}
Comments == {Undefined, "", "A comment"}
Timestamps == {Undefined, "yesterday", "2024-05-01T10:00:00.000Z"}

\* What request.json() meets: a body that is no JSON, a JSON value that is
\* no object, or an object with its fields.
NotJson ==
  [json |-> FALSE, object |-> FALSE, page |-> Undefined, category |-> Undefined,
   comment |-> Undefined, timestamp |-> Undefined]

RequestBodies ==
  {NotJson, [NotJson EXCEPT !.json = TRUE]} \cup
  {[json |-> TRUE, object |-> TRUE, page |-> p, category |-> c, comment |-> m,
    timestamp |-> t] : p \in Pages, c \in Categories, m \in Comments, t \in Timestamps}

\* z.string().datetime(): the shape of an ISO datetime in UTC.
IsDatetime(t) ==
  /\ Len(t) = 24
  /\ SubSeq(t, 5, 5) = "-" /\ SubSeq(t, 8, 8) = "-" /\ SubSeq(t, 11, 11) = "T"
  /\ SubSeq(t, 14, 14) = ":" /\ SubSeq(t, 17, 17) = ":" /\ SubSeq(t, 24, 24) = "Z"

\* Variant: the body is not validated.
FeedbackSchemaIssuesNone(body) == <<>>

\* FeedbackSchema.parse(body): the messages of the issues of the ZodError it
\* throws, in the order of the schema's keys; none when the body is valid.
FeedbackSchemaIssues(body) ==
  IF ~body.object THEN <<"Expected object, received null">>
  ELSE
    (IF body.page = Undefined THEN <<"Required">>
     ELSE (IF Len(body.page) < 1 THEN <<"Page path is required">> ELSE <<>>)
          \o (IF Len(body.page) >= 1 /\ SubSeq(body.page, 1, 1) = "/"
                THEN <<>> ELSE <<"Page must start with / (relative path)">>))
    \o (IF body.category = Undefined THEN <<"Required">>
        ELSE IF body.category \notin {"Bug", "Feature Request", "Question", "Typo",
                                      "Confusing", "Outdated", "Missing", "Other"}
          THEN <<"Invalid enum value">> ELSE <<>>)
    \o (IF body.comment = Undefined THEN <<"Required">>
        ELSE IF Len(body.comment) < 1 THEN <<"Comment is required">> ELSE <<>>)
    \o (IF body.timestamp = Undefined THEN <<"Required">>
        ELSE IF ~IsDatetime(body.timestamp)
          THEN <<"Timestamp must be a valid ISO datetime">> ELSE <<>>)

\* The Response of the endpoint: status and the fields of its JSON body.
NoResponse ==
  [status |-> 0, success |-> FALSE, id |-> Undefined, error |-> Undefined,
   retryable |-> Undefined, connectorsUsed |-> 0]

MethodNotAllowed ==
  [NoResponse EXCEPT !.status = 405,
                     !.error = "Method not allowed. Only POST requests are supported."]

InvalidJson == [NoResponse EXCEPT !.status = 400, !.error = "Invalid JSON in request body"]

\* The outer catch block: the first issue's message, retryable false.
InvalidFeedback(issues) ==
  [NoResponse EXCEPT !.status = 400, !.error = issues[1], !.retryable = "false"]

\* result.results.some((r) => r.retryable)
someRetryable(rs) == \E i \in 1..Len(rs) : rs[i].retryable = "true"

\* Variant: a failed submission is never reported as retryable.
ResponseForNeverRetryable(r) ==
  IF ~r.success
    THEN [NoResponse EXCEPT !.status = 500,
            !.error = IF r.error # Undefined THEN r.error ELSE "Failed to store feedback",
            !.retryable = "false"]
    ELSE [NoResponse EXCEPT !.status = 200, !.success = TRUE, !.id = r.correlationId,
                            !.connectorsUsed = Len(r.results)]

\* The response to the result r of processFeedback: 500 with error and
\* retryable when it failed, 200 with the correlation id otherwise.
ResponseFor(r) ==
  IF ~r.success
    THEN [NoResponse EXCEPT !.status = 500,
            !.error = IF r.error # Undefined THEN r.error ELSE "Failed to store feedback",
            !.retryable = IF someRetryable(r.results) THEN "true" ELSE "false"]
    ELSE [NoResponse EXCEPT !.status = 200, !.success = TRUE, !.id = r.correlationId,
                            !.connectorsUsed = Len(r.results)]

\* What the connectors createFromEnvironment builds can answer: detect() of
\* each is computed from what the connector was constructed with, the mock
\* always succeeds, Linear and Astro DB return a boolean from health() and a
\* StorageResult from store().
DetectOutcomesOf(name) ==
  LET detected ==
        CASE name = "linear" -> LinearDetect(getLinearConfig(NoContext, req.processEnv))
          [] name = "astrodb" -> AstroDbDetect(req.astrodb.deps)
          [] OTHER -> MockDetect
  IN  {IF detected THEN "true" ELSE "false"}

HealthOutcomesOf(name, deps) ==
  CASE name = "mock" -> {"true"}
    [] name = "astrodb" -> IF "sql" \in deps THEN {"true", "false"} ELSE {"false"}
    [] OTHER -> {"true", "false"}

StoreOutcomesOf(name) ==
  CASE name = "mock" -> {"ok"}
    [] name = "astrodb" -> {"ok", "failRetry"}
    [] OTHER -> {"ok", "failRetry", "failNoRetry"}

\* The process.env of the server the endpoint runs on.
EndpointEnvs == {e \in ProcessEnvs : e["LINEAR_PROJECT_ID"] = Undefined}

\* No request has been received.
NoRequest ==
  [pc |-> "idle", method |-> Undefined, body |-> NotJson, processEnv |-> NoEnv,
   astrodb |-> NoAstroDb, astroDetects |-> 0, response |-> NoResponse]

\* ------------------------------------------------- two submissions at once
\* The two processFeedback calls in flight.
Submissions == {1, 2}

\* The local variables of a processFeedback call that has not started.
NoSubmission ==
  [pc |-> "idle", correlationId |-> Undefined, di |-> 0, connector |-> NoConnector,
   available |-> <<>>, tasks |-> <<>>, result |-> NoResult, settled |-> "pending"]

\* processFeedback of a call with local variables s, from "await
\* detectAvailable()" returning st to the next suspension point or the return.
ContinueSubmission(s, st) ==
  IF st.exc
    THEN [s EXCEPT !.pc = "done", !.result = CatchResult(s.correlationId),
                   !.settled = "resolved", !.available = st.available]
    ELSE IF NoneAvailable(st.available)
      THEN [s EXCEPT !.pc = "done", !.result = NoConnectorsResult(s.correlationId),
                     !.settled = "resolved", !.available = st.available]
      ELSE [s EXCEPT !.pc = "fanout", !.available = st.available,
                     !.tasks = StartTasks(st.available)]

\* Variant: the processed results are kept in a field of the handler, and a
\* call that returns after the other one returns what that one left there.
ResultsOfShared(c) ==
  LET other == CHOOSE x \in Submissions : x # c IN
    IF calls[other].pc = "done" /\ Len(calls[other].result.results) > 0
      THEN calls[other].result.results
      ELSE ProcessedResults(calls[c].available, calls[c].tasks)

\* const processedResults of call c: built from the call's own
\* availableConnectors and the outcomes of its own promises.
ResultsOf(c) == ProcessedResults(calls[c].available, calls[c].tasks)

\* ------------------------------------------------------ the feedback modal
\* Most openModal() calls and most requests issued on one page.
MaxOpens == 2
MaxSubmits == 2

\* document.body.style.overflow as the page sets it.
PageOverflows == {"", "scroll"}

\* What the user can have in the category and comment fields; "" is empty.
CategoryValues == {"", "Bug"}
CommentValues == {"", "text"}

\* How the fetch of a submission ends: a 2xx response, another response, a
\* rejected fetch.
FetchOutcomes == {"2xx", "non2xx", "network"}

\* The modal after initializeModal(): hidden, the form idle and empty, no
\* request in flight, no timer pending.  epoch counts the times the modal went
\* from closed to open, before is the body overflow at that moment, opens and
\* submits and retries count openModal() calls, requests and Retry clicks,
\* acted tells a user action since the last success, last names the last event.
InitialModal ==
  [open |-> FALSE, overflow |-> "", originalBodyOverflow |-> "", before |-> "",
   currentState |-> "idle", disabled |-> FALSE, category |-> "", comment |-> "",
   requests |-> <<>>, timers |-> <<>>, epoch |-> 0, opens |-> 0, submits |-> 0,
   retries |-> 0, acted |-> FALSE, last |-> "none"]

\* Variant: no auto-close timer is started.
setFormStateNoTimer(m, state) ==
  [m EXCEPT !.currentState = state, !.disabled = (state = "loading")]

\* setFormState(state): the state, the submit button, and on success the
\* 3000 ms timer that closes the modal.
setFormState(m, state) ==
  [m EXCEPT !.currentState = state,
            !.disabled = (state = "loading"),
            !.timers = IF state = "success"
                         THEN Append(@, [setIn |-> m.epoch, madeIn |-> m.epoch])
                         ELSE @]

\* resetForm(): form.reset() and the idle state.
resetForm(m) == setFormState([m EXCEPT !.category = "", !.comment = ""], "idle")

\* closeModal(): hide, restore the body overflow, reset the form unless it
\* shows the success message.
closeModal(m) ==
  LET hidden == [m EXCEPT !.open = FALSE, !.overflow = m.originalBodyOverflow] IN
    IF m.currentState # "success" THEN resetForm(hidden) ELSE hidden

\* openModal(): remember the body overflow, lock the scroll, show the modal,
\* set the idle state.
openModal(m) ==
  setFormState([m EXCEPT !.originalBodyOverflow = m.overflow,
                         !.overflow = "hidden",
                         !.open = TRUE,
                         !.epoch = IF m.open THEN @ ELSE @ + 1,
                         !.before = IF m.open THEN @ ELSE m.overflow,
                         !.opens = @ + 1],
               "idle")

\* Variant: Retry clears the form.
handleRetryReset(m) == resetForm(m)

\* handleRetry()
handleRetry(m) == setFormState(m, "idle")

\* ----------------------------------------------------- the feedback widget
\* Most clicks on the widget of one page.
MaxClicks == 2

\* The default arguments of waitForModal.
maxRetries == 5
baseDelay == 50
maxDelay == 2000

\* Math.random() * 10, in whole milliseconds.
Jitters == {0, 4, 9}

\* The widget after its script ran: the modal API is not there yet, no click
\* has been made.
InitialWidget == [available |-> FALSE, clicks |-> <<>>]

\* A click whose handler has not yet called waitForModal: nothing opened,
\* nothing checked, no timer.
NoChain == [st |-> "running", currentRetry |-> 0, delay |-> 0, checks |-> 0, opens |-> 0]

\* Math.min(baseDelay * Math.pow(2, currentRetry) + Math.random() * 10, maxDelay)
Delay(currentRetry, jitter) ==
  LET d == baseDelay * (2 ^ currentRetry) + jitter IN
    IF d < maxDelay THEN d ELSE maxDelay

\* Variant: the limit is tested with > in place of >=.
waitForModalOffByOne(chain, api, currentRetry, jitter) ==
  LET c == [chain EXCEPT !.checks = @ + 1, !.currentRetry = currentRetry] IN
    IF api
      THEN [c EXCEPT !.st = "opened", !.opens = @ + 1, !.delay = 0]
      ELSE IF currentRetry > maxRetries
        THEN [c EXCEPT !.st = "gaveUp", !.delay = 0]
        ELSE [c EXCEPT !.st = "waiting", !.delay = Delay(currentRetry, jitter)]

\* waitForModal(maxRetries, baseDelay, maxDelay, currentRetry): open the modal
\* when it is there, give up at the limit, else set the timer of the next call.
waitForModal(chain, api, currentRetry, jitter) ==
  LET c == [chain EXCEPT !.checks = @ + 1, !.currentRetry = currentRetry] IN
    IF api
      THEN [c EXCEPT !.st = "opened", !.opens = @ + 1, !.delay = 0]
      ELSE IF currentRetry >= maxRetries
        THEN [c EXCEPT !.st = "gaveUp", !.delay = 0]
        ELSE [c EXCEPT !.st = "waiting", !.delay = Delay(currentRetry, jitter)]

\* handleClick(): open the modal when it is there, else waitForModal().
handleClick(api, jitter) ==
  IF api
    THEN [NoChain EXCEPT !.st = "opened", !.opens = 1]
    ELSE waitForModal(NoChain, api, 0, jitter)

\* ---------------------------------------------------------------- actions
Init ==
  /\ registry = <<>>
  /\ lastReg = [n \in Conn |-> 0]
  /\ pc = "idle"
  /\ correlationId = Undefined
  /\ di = 0
  /\ connector = NoConnector
  /\ probes = <<>>
  /\ available = <<>>
  /\ tasks = <<>>
  /\ result = NoResult
  /\ settled = "pending"
  /\ hc = NoHealthCall
  /\ call = NoCall
  /\ req = NoRequest
  /\ envq = NoQuery
  /\ calls = [c \in Submissions |-> NoSubmission]
  /\ names = <<>>
  /\ feedback = NoFeedback
  /\ modal = InitialModal
  /\ widget = InitialWidget

\* registry.register(connector)
Register(c) ==
  /\ RegCount < MaxRegs
  /\ LET obj == [name |-> c, id |-> RegCount + 1] IN
       /\ registry' = register(registry, obj)
       /\ lastReg' = [lastReg EXCEPT ![c] = obj.id]
  /\ UNCHANGED <<pc, correlationId, di, connector, probes, available, tasks, result,
                 settled>>
  /\ UNCHANGED otherCalls
  /\ UNCHANGED sideState

\* processFeedback from "await detectAvailable()" returning st (the loop's
\* final state) to the next suspension point or the return.
Continue(cid, st) ==
  IF st.exc
    THEN /\ pc' = "done"
         /\ result' = CatchResult(cid)
         /\ settled' = "resolved"
         /\ available' = st.available
         /\ tasks' = <<>>
    ELSE IF NoneAvailable(st.available)
      THEN /\ pc' = "done"
           /\ result' = NoConnectorsResult(cid)
           /\ settled' = "resolved"
           /\ available' = st.available
           /\ tasks' = <<>>
      ELSE /\ pc' = "fanout"
           /\ available' = st.available
           /\ tasks' = StartTasks(st.available)
           /\ UNCHANGED <<result, settled>>

\* handler.processFeedback(feedback): correlation id, then detectAvailable()
\* up to the first detect() call.
ProcessFeedback ==
  /\ pc = "idle"
  /\ \E fb \in Feedbacks :
       feedback' = [feedback EXCEPT !.given = fb, !.now = fb]
  /\ \E cid \in CorrelationIds :
       /\ correlationId' = cid
       /\ IF Len(registry) = 0
            THEN /\ Continue(cid, [available |-> <<>>, exc |-> FALSE])
                 /\ di' = 1
                 /\ connector' = NoConnector
            ELSE /\ pc' = "detect"
                 /\ di' = 1
                 /\ connector' = registry[1]
                 /\ UNCHANGED <<available, tasks, result, settled>>
  /\ UNCHANGED <<registry, lastReg, probes>>
  /\ UNCHANGED otherCalls
  /\ UNCHANGED sideRest

\* The detect() call in flight settles with outcome o; the loop moves on to
\* the next connector or, after the last one, detectAvailable returns.
DetectSettle(o) ==
  /\ pc = "detect"
  /\ di <= Len(registry)
  /\ LET st == DetectStep(available, connector, o) IN
       /\ probes' = Append(probes, [connector |-> connector.name, id |-> connector.id,
                                     outcome |-> o])
       /\ di' = di + 1
       /\ IF st.exc \/ di + 1 > Len(registry)
            THEN /\ Continue(correlationId, st)
                 /\ connector' = NoConnector
            ELSE /\ available' = st.available
                 /\ connector' = registry[di + 1]
                 /\ UNCHANGED <<pc, tasks, result, settled>>
  /\ UNCHANGED <<registry, lastReg, correlationId>>
  /\ UNCHANGED otherCalls
  /\ UNCHANGED sideState

\* The backend behind the detect() call in flight never answers.
DetectHang ==
  /\ pc = "detect"
  /\ pc' = "detectHung"
  /\ UNCHANGED <<registry, lastReg, correlationId, di, connector, probes, available, tasks,
                 result, settled>>
  /\ UNCHANGED otherCalls
  /\ UNCHANGED sideState

\* The health() call of task i settles with outcome o.
HealthSettle(i, o) ==
  /\ pc = "fanout"
  /\ i \in 1..Len(tasks)
  /\ tasks[i].st = "health"
  /\ tasks[i].health = "pending"
  /\ tasks' = [tasks EXCEPT ![i] = AfterHealth(tasks[i], o)]
  /\ feedback' = IF Throws(o)
                   THEN feedback
                   ELSE [feedback EXCEPT !.passed[i] = StoreArgument(feedback.now)]
  /\ UNCHANGED <<registry, lastReg, pc, correlationId, di, connector, probes, available,
                 result, settled>>
  /\ UNCHANGED otherCalls
  /\ UNCHANGED sideRest

\* The backend behind health() of task i never answers.
HealthHang(i) ==
  /\ pc = "fanout"
  /\ i \in 1..Len(tasks)
  /\ tasks[i].st = "health"
  /\ tasks[i].health = "pending"
  /\ tasks' = [tasks EXCEPT ![i].health = "hung"]
  /\ UNCHANGED <<registry, lastReg, pc, correlationId, di, connector, probes, available,
                 result, settled>>
  /\ UNCHANGED otherCalls
  /\ UNCHANGED sideState

\* The store() call of task i settles with outcome o.
StoreSettle(i, o) ==
  /\ pc = "fanout"
  /\ i \in 1..Len(tasks)
  /\ tasks[i].st = "store"
  /\ tasks[i].store = "pending"
  /\ tasks' = [tasks EXCEPT ![i] = AfterStore(tasks[i], o)]
  /\ UNCHANGED <<registry, lastReg, pc, correlationId, di, connector, probes, available,
                 result, settled>>
  /\ UNCHANGED otherCalls
  /\ UNCHANGED sideState

\* The backend behind store() of task i never answers.
StoreHang(i) ==
  /\ pc = "fanout"
  /\ i \in 1..Len(tasks)
  /\ tasks[i].st = "store"
  /\ tasks[i].store = "pending"
  /\ tasks' = [tasks EXCEPT ![i].store = "hung"]
  /\ UNCHANGED <<registry, lastReg, pc, correlationId, di, connector, probes, available,
                 result, settled>>
  /\ UNCHANGED otherCalls
  /\ UNCHANGED sideState

\* Variant: on return the handler drops from the registry the connectors
\* that were not available.
JoinPruning ==
  /\ pc = "fanout"
  /\ AllSettled(tasks)
  /\ pc' = "done"
  /\ result' = AggregatedResult(correlationId, ProcessedResults(available, tasks))
  /\ settled' = "resolved"
  /\ registry' = available
  /\ UNCHANGED <<lastReg, correlationId, di, connector, probes, available, tasks>>
  /\ UNCHANGED otherCalls
  /\ UNCHANGED sideState

\* await Promise.allSettled(...) resumes: transform, aggregate, return.
Join ==
  /\ pc = "fanout"
  /\ AllSettled(tasks)
  /\ pc' = "done"
  /\ result' = AggregatedResult(correlationId, ProcessedResults(available, tasks))
  /\ settled' = "resolved"
  /\ UNCHANGED <<registry, lastReg, correlationId, di, connector, probes, available, tasks>>
  /\ UNCHANGED otherCalls
  /\ UNCHANGED sideState

\* handler.getHealthStatus(): return await this.registry.checkHealth(), up to
\* the first health() call, or to the return when the registry is empty.
GetHealthStatus ==
  /\ hc.pc = "idle"
  /\ IF Len(registry) = 0
       THEN hc' = [hc EXCEPT !.pc = "done", !.i = 1, !.settled = "resolved"]
       ELSE hc' = [hc EXCEPT !.pc = "health", !.i = 1, !.connector = registry[1]]
  /\ UNCHANGED <<registry, lastReg>>
  /\ UNCHANGED feedbackCall
  /\ UNCHANGED call
  /\ UNCHANGED sideState

\* The health() call in flight in checkHealth() settles with outcome o; the
\* loop moves on to the next connector or, after the last one, checkHealth()
\* and getHealthStatus() return the map.
CheckHealthSettle(o) ==
  /\ hc.pc = "health"
  /\ LET st == HealthStep(hc.healthResults, hc.connector, o)
         answers == Append(hc.answers, [connector |-> hc.connector.name,
                                        id |-> hc.connector.id, outcome |-> o])
     IN  IF st.exc
           THEN hc' = [hc EXCEPT !.pc = "done", !.settled = "rejected",
                                 !.healthResults = st.healthResults,
                                 !.answers = answers, !.connector = NoConnector]
           ELSE IF hc.i + 1 > Len(registry)
             THEN hc' = [hc EXCEPT !.pc = "done", !.settled = "resolved",
                                   !.i = hc.i + 1,
                                   !.healthResults = st.healthResults,
                                   !.answers = answers, !.connector = NoConnector]
             ELSE hc' = [hc EXCEPT !.i = hc.i + 1,
                                   !.healthResults = st.healthResults,
                                   !.answers = answers,
                                   !.connector = registry[hc.i + 1]]
  /\ UNCHANGED <<registry, lastReg>>
  /\ UNCHANGED feedbackCall
  /\ UNCHANGED call
  /\ UNCHANGED sideState

\* The backend behind the health() call in flight in checkHealth() never
\* answers.
CheckHealthHang ==
  /\ hc.pc = "health"
  /\ hc' = [hc EXCEPT !.pc = "healthHung"]
  /\ UNCHANGED <<registry, lastReg>>
  /\ UNCHANGED feedbackCall
  /\ UNCHANGED call
  /\ UNCHANGED sideState

\* The outcomes of a database operation: done, a rejected promise, an
\* exception, a promise rejected with a value that is no Error.
DbOutcomes == {"ok", "reject", "throw", "rejectValue"}

\* What a failed database operation throws or rejects with.
DbError(o) ==
  CASE o = "reject" -> Error("SQLITE_ERROR: no such table: Feedback")
    [] o = "throw" -> Error("this.db.insert is not a function")
    [] o = "rejectValue" -> NonError("D1_ERROR")
    [] OTHER -> NoError

\* The dependencies an AstroDbConnector may hold.
Deps == SUBSET {"db", "Feedback", "sql"}

\* linear.store(feedback) or linear.health(), up to "await fetch(...)" in
\* makeRequest.
LinearCall(op) ==
  /\ call.pc = "idle"
  /\ call' = [call EXCEPT !.connector = "linear", !.op = op, !.pc = "fetch"]
  /\ UNCHANGED <<registry, lastReg, hc>>
  /\ UNCHANGED feedbackCall
  /\ UNCHANGED sideState

\* fetch() rejects with e: makeRequest throws it, the catch block of the
\* method answers.
FetchReject(e) ==
  /\ call.pc = "fetch"
  /\ call' = [call EXCEPT !.pc = "done", !.rejection = e, !.out = Catch(call, e)]
  /\ UNCHANGED <<registry, lastReg, hc>>
  /\ UNCHANGED feedbackCall
  /\ UNCHANGED sideState

\* fetch() resolves with a response: makeRequest throws on a status that is
\* not ok and otherwise awaits response.json().
FetchResponse(status, statusText) ==
  /\ call.pc = "fetch"
  /\ IF ok(status)
       THEN call' = [call EXCEPT !.pc = "json", !.status = status,
                                 !.statusText = statusText]
       ELSE call' = [call EXCEPT !.pc = "done", !.status = status,
                                 !.statusText = statusText,
                                 !.out = Catch(call, HttpError(status, statusText))]
  /\ UNCHANGED <<registry, lastReg, hc>>
  /\ UNCHANGED feedbackCall
  /\ UNCHANGED sideState

\* response.json() settles: makeRequest throws or returns the body, and the
\* method runs to its return.
JsonSettle(body) ==
  /\ call.pc = "json"
  /\ call' = [call EXCEPT
       !.pc = "done", !.body = body,
       !.out = IF JsonError(body) # NoError THEN Catch(call, JsonError(body))
               ELSE IF call.op = "store" THEN LinearStoreResult(body)
               ELSE LinearHealthResult(body)]
  /\ UNCHANGED <<registry, lastReg, hc>>
  /\ UNCHANGED feedbackCall
  /\ UNCHANGED sideState

\* astrodb.store(feedback) or astrodb.health() on a connector holding the
\* dependencies deps, up to the await of the database operation.
AstroDbCall(op, deps) ==
  /\ call.pc = "idle"
  /\ LET c == [call EXCEPT !.connector = "astrodb", !.op = op, !.deps = deps] IN
       IF op = "store"
         THEN IF "db" \notin deps \/ "Feedback" \notin deps
                THEN call' = [c EXCEPT !.pc = "done",
                                !.out = Catch(c, Error("Astro DB not initialized"))]
                ELSE call' = [c EXCEPT !.pc = "query"]
         ELSE IF "db" \notin deps \/ "Feedback" \notin deps \/ "sql" \notin deps
                THEN call' = [c EXCEPT !.pc = "done", !.out = Answered(FALSE)]
                ELSE call' = [c EXCEPT !.pc = "query"]
  /\ UNCHANGED <<registry, lastReg, hc>>
  /\ UNCHANGED feedbackCall
  /\ UNCHANGED sideState

\* The insert (store) or the select (health) ends with outcome o.
QuerySettle(o) ==
  /\ call.pc = "query"
  /\ call' = [call EXCEPT
       !.pc = "done", !.db = o, !.rejection = DbError(o),
       !.out = IF o # "ok" THEN Catch(call, DbError(o))
               ELSE IF call.op = "store" THEN Stored("feedback-1")
               ELSE Answered(TRUE)]
  /\ UNCHANGED <<registry, lastReg, hc>>
  /\ UNCHANGED feedbackCall
  /\ UNCHANGED sideState

\* What an action of the adapter leaves alone.
besideEnv == <<registry, lastReg, hc, call, req, calls, names, feedback, clientState>>

\* envAdapter.getEnv(key, context)
GetEnv(key, context, processEnv) ==
  /\ envq.op = "none"
  /\ envq' = [envq EXCEPT !.op = "getEnv", !.key = key, !.context = context,
                          !.processEnv = processEnv,
                          !.value = getEnv(key, context, processEnv)]
  /\ UNCHANGED besideEnv
  /\ UNCHANGED feedbackCall

\* envAdapter.getEnvironmentVariables(context)
GetEnvironmentVariables(context, processEnv) ==
  /\ envq.op = "none"
  /\ envq' = [envq EXCEPT !.op = "getEnvironmentVariables", !.context = context,
                          !.processEnv = processEnv,
                          !.variables = getEnvironmentVariables(context, processEnv)]
  /\ UNCHANGED besideEnv
  /\ UNCHANGED feedbackCall

\* envAdapter.getLinearConfig(context)
GetLinearConfig(context, processEnv) ==
  /\ envq.op = "none"
  /\ envq' = [envq EXCEPT !.op = "getLinearConfig", !.context = context,
                          !.processEnv = processEnv,
                          !.config = getLinearConfig(context, processEnv)]
  /\ UNCHANGED besideEnv
  /\ UNCHANGED feedbackCall

\* FeedbackHandler.createFromEnvironment({ cloudflare, astrodb })
CreateFromEnvironment(cloudflare, astrodb, processEnv) ==
  /\ envq.op = "none"
  /\ envq' = [envq EXCEPT !.op = "createFromEnvironment", !.context = cloudflare,
                          !.processEnv = processEnv, !.astrodb = astrodb,
                          !.config = getLinearConfig(cloudflare, processEnv),
                          !.registry = createFromEnvironment(cloudflare, astrodb,
                                                             processEnv)]
  /\ UNCHANGED besideEnv
  /\ UNCHANGED feedbackCall

\* What a step of the endpoint outside processFeedback leaves alone.
besideRequest == <<lastReg, hc, call, envq, calls, feedback, clientState>>

\* POST: a request arrives on a server with environment processEnv; the
\* method is tested and request.json() is awaited.
Post(method, body, processEnv) ==
  /\ req.pc = "idle"
  /\ IF method # "POST"
       THEN req' = [req EXCEPT !.pc = "responded", !.method = method, !.body = body,
                               !.processEnv = processEnv, !.response = MethodNotAllowed]
       ELSE req' = [req EXCEPT !.pc = "json", !.method = method, !.body = body,
                               !.processEnv = processEnv]
  /\ UNCHANGED <<registry, names>>
  /\ UNCHANGED besideRequest
  /\ UNCHANGED feedbackCall

\* request.json() settles: a body that is no JSON is answered 400; otherwise
\* FeedbackSchema.parse runs, a ZodError lands in the outer catch (400), a
\* valid body goes on to the import of astro:db.
ParseBody ==
  /\ req.pc = "json"
  /\ IF ~req.body.json
       THEN req' = [req EXCEPT !.pc = "responded", !.response = InvalidJson]
       ELSE IF Len(FeedbackSchemaIssues(req.body)) > 0
         THEN req' = [req EXCEPT !.pc = "responded",
                        !.response = InvalidFeedback(FeedbackSchemaIssues(req.body))]
         ELSE req' = [req EXCEPT !.pc = "import"]
  /\ UNCHANGED <<registry, names>>
  /\ UNCHANGED besideRequest
  /\ UNCHANGED feedbackCall

\* Promise.race of import("astro:db") and the timeout settles: astrodb holds
\* what the module exports, or stays undefined when the import failed or timed
\* out.
ImportSettle(astrodb) ==
  /\ req.pc = "import"
  /\ req' = [req EXCEPT !.pc = "create", !.astrodb = astrodb]
  /\ UNCHANGED <<registry, names>>
  /\ UNCHANGED besideRequest
  /\ UNCHANGED feedbackCall

\* await FeedbackHandler.createFromEnvironment({ astrodb }), which calls
\* detect() of the Astro DB connector when astrodb is given, then the log of
\* getRegisteredConnectors().
CreateHandler ==
  /\ req.pc = "create"
  /\ registry' = createFromEnvironment(NoContext, req.astrodb, req.processEnv)
  /\ names' = [k \in 1..Len(registry') |-> registry'[k].name]
  /\ req' = [req EXCEPT !.pc = "process",
                        !.astroDetects = IF req.astrodb.given THEN 1 ELSE 0]
  /\ UNCHANGED besideRequest
  /\ UNCHANGED feedbackCall

\* processFeedback returned: the endpoint answers.
Respond ==
  /\ req.pc = "process"
  /\ pc = "done"
  /\ settled = "resolved"
  /\ req' = [req EXCEPT !.pc = "responded", !.response = ResponseFor(result)]
  /\ UNCHANGED <<registry, names>>
  /\ UNCHANGED besideRequest
  /\ UNCHANGED feedbackCall

\* handler.getRegisteredConnectors(): the names of getAllConnectors().
GetRegisteredConnectors ==
  /\ names' = [k \in 1..Len(getAllConnectors(registry)) |->
                 getAllConnectors(registry)[k].name]
  /\ UNCHANGED <<registry, lastReg, hc, call, req, envq, calls, feedback, clientState>>
  /\ UNCHANGED feedbackCall

\* What a step of one of the two submissions leaves alone.
besideSubmissions == <<registry, lastReg, hc, call, req, envq, names, feedback,
                       clientState>>

\* handler.processFeedback(feedback) of call c, up to the first detect().
Submit(c, cid) ==
  /\ calls[c].pc = "idle"
  /\ LET s == [calls[c] EXCEPT !.correlationId = cid, !.di = 1] IN
       calls' = [calls EXCEPT ![c] =
         IF Len(registry) = 0
           THEN ContinueSubmission(s, [available |-> <<>>, exc |-> FALSE])
           ELSE [s EXCEPT !.pc = "detect", !.connector = registry[1]]]
  /\ UNCHANGED besideSubmissions
  /\ UNCHANGED feedbackCall

\* The detect() call in flight in call c settles with outcome o.
SubmissionDetectSettle(c, o) ==
  /\ calls[c].pc = "detect"
  /\ LET s0 == calls[c]
         st == DetectStep(s0.available, s0.connector, o)
         s == [s0 EXCEPT !.di = s0.di + 1]
     IN  calls' = [calls EXCEPT ![c] =
           IF st.exc \/ s0.di + 1 > Len(registry)
             THEN ContinueSubmission([s EXCEPT !.connector = NoConnector], st)
             ELSE [s EXCEPT !.available = st.available,
                            !.connector = registry[s0.di + 1]]]
  /\ UNCHANGED besideSubmissions
  /\ UNCHANGED feedbackCall

\* The health() call of task i of call c settles with outcome o.
SubmissionHealthSettle(c, i, o) ==
  /\ calls[c].pc = "fanout"
  /\ i \in 1..Len(calls[c].tasks)
  /\ calls[c].tasks[i].st = "health"
  /\ calls' = [calls EXCEPT ![c].tasks[i] = AfterHealth(calls[c].tasks[i], o)]
  /\ UNCHANGED besideSubmissions
  /\ UNCHANGED feedbackCall

\* The store() call of task i of call c settles with outcome o.
SubmissionStoreSettle(c, i, o) ==
  /\ calls[c].pc = "fanout"
  /\ i \in 1..Len(calls[c].tasks)
  /\ calls[c].tasks[i].st = "store"
  /\ calls' = [calls EXCEPT ![c].tasks[i] = AfterStore(calls[c].tasks[i], o)]
  /\ UNCHANGED besideSubmissions
  /\ UNCHANGED feedbackCall

\* await Promise.allSettled(...) of call c resumes: transform, aggregate,
\* return.
SubmissionJoin(c) ==
  /\ calls[c].pc = "fanout"
  /\ AllSettled(calls[c].tasks)
  /\ calls' = [calls EXCEPT ![c].pc = "done", ![c].settled = "resolved",
                 ![c].result = AggregatedResult(calls[c].correlationId, ResultsOf(c))]
  /\ UNCHANGED besideSubmissions
  /\ UNCHANGED feedbackCall

\* What an event of the modal leaves alone.
besideModal == <<registry, lastReg, hc, call, req, envq, calls, names, feedback, widget>>

\* The page sets document.body.style.overflow while the modal is closed.
PageSetsOverflow(v) ==
  /\ ~modal.open
  /\ modal.overflow # v
  /\ modal' = [modal EXCEPT !.overflow = v, !.acted = TRUE, !.last = "page"]
  /\ UNCHANGED besideModal
  /\ UNCHANGED feedbackCall

\* window.starmarkFeedbackModal.open(), from the widget or from a script.
OpenModal ==
  /\ modal.opens < MaxOpens
  /\ modal' = [openModal(modal) EXCEPT !.acted = TRUE, !.last = "open"]
  /\ UNCHANGED besideModal
  /\ UNCHANGED feedbackCall

\* A user close: Escape, the close button or a click on the backdrop while the
\* modal is open, or window.starmarkFeedbackModal.close() at any time.
CloseModal(by) ==
  /\ by \in {"escape", "button", "backdrop"} => modal.open
  /\ modal' = [closeModal(modal) EXCEPT !.acted = TRUE, !.last = "close"]
  /\ UNCHANGED besideModal
  /\ UNCHANGED feedbackCall

\* The user edits the category and the comment of the open form.
Fill(category, comment) ==
  /\ modal.open
  /\ <<category, comment>> # <<modal.category, modal.comment>>
  /\ modal' = [modal EXCEPT !.category = category, !.comment = comment,
                            !.acted = TRUE, !.last = "fill"]
  /\ UNCHANGED besideModal
  /\ UNCHANGED feedbackCall

\* handleSubmit up to "await fetch(...)": a submit event of the open form,
\* whose required fields are filled; nothing happens while loading, otherwise
\* the loading state is set and the request is sent.
HandleSubmit ==
  /\ modal.open
  /\ modal.category # "" /\ modal.comment # ""
  /\ modal.submits < MaxSubmits
  /\ IF modal.currentState = "loading"
       THEN modal' = [modal EXCEPT !.acted = TRUE, !.last = "ignored"]
       ELSE modal' = [setFormState(modal, "loading") EXCEPT
                        !.requests = Append(@, [madeIn |-> modal.epoch]),
                        !.submits = @ + 1, !.acted = TRUE, !.last = "submit"]
  /\ UNCHANGED besideModal
  /\ UNCHANGED feedbackCall

\* handleSubmit after "await fetch(...)" of request i settled with outcome o:
\* the success state on a 2xx response, the error state otherwise.
FetchSettle(i, o) ==
  /\ i \in 1..Len(modal.requests)
  /\ LET rest == [k \in 1..(Len(modal.requests) - 1) |->
                    IF k < i THEN modal.requests[k] ELSE modal.requests[k + 1]]
         m == [modal EXCEPT !.requests = rest, !.last = o]
     IN  IF o = "2xx"
           THEN LET done == setFormState(m, "success") IN
                  modal' = [done EXCEPT
                    !.acted = FALSE,
                    !.timers = [k \in 1..Len(done.timers) |->
                                  IF k = Len(m.timers) + 1
                                    THEN [done.timers[k] EXCEPT
                                            !.madeIn = modal.requests[i].madeIn]
                                    ELSE done.timers[k]]]
           ELSE modal' = setFormState(m, "error")
  /\ UNCHANGED besideModal
  /\ UNCHANGED feedbackCall

\* The oldest pending 3000 ms timer fires: closeModal(), resetForm().
AutoClose ==
  /\ Len(modal.timers) > 0
  /\ modal' = [resetForm(closeModal([modal EXCEPT !.timers = Tail(@)])) EXCEPT
                 !.last = "timer"]
  /\ UNCHANGED besideModal
  /\ UNCHANGED feedbackCall

\* A click on the Retry button, which the error state shows.
HandleRetry ==
  /\ modal.open
  /\ modal.currentState = "error"
  /\ modal' = [handleRetry(modal) EXCEPT !.retries = @ + 1, !.acted = TRUE,
                                         !.last = "retry"]
  /\ UNCHANGED besideModal
  /\ UNCHANGED feedbackCall

\* What an event of the widget leaves alone.
besideWidget == <<registry, lastReg, hc, call, req, envq, calls, names, feedback, modal>>

\* The modal's script runs: window.starmarkFeedbackModal is set.
ModalAvailable ==
  /\ ~widget.available
  /\ widget' = [widget EXCEPT !.available = TRUE]
  /\ UNCHANGED besideWidget
  /\ UNCHANGED feedbackCall

\* A click on the widget.
HandleClick(jitter) ==
  /\ Len(widget.clicks) < MaxClicks
  /\ widget' = [widget EXCEPT !.clicks = Append(@, handleClick(widget.available, jitter))]
  /\ UNCHANGED besideWidget
  /\ UNCHANGED feedbackCall

\* The timer of click k fires: waitForModal(..., currentRetry + 1).
RetryTimer(k, jitter) ==
  /\ k \in 1..Len(widget.clicks)
  /\ widget.clicks[k].st = "waiting"
  /\ widget' = [widget EXCEPT !.clicks[k] =
                  waitForModal(@, widget.available, @.currentRetry + 1, jitter)]
  /\ UNCHANGED besideWidget
  /\ UNCHANGED feedbackCall

Next ==
  \/ \E c \in Conn : Register(c)
  \/ ProcessFeedback
  \/ \E o \in DetectOutcomes : DetectSettle(o)
  \/ DetectHang
  \/ \E i \in 1..MaxConn, o \in HealthOutcomes : HealthSettle(i, o)
  \/ \E i \in 1..MaxConn : HealthHang(i)
  \/ \E i \in 1..MaxConn, o \in StoreOutcomes : StoreSettle(i, o)
  \/ \E i \in 1..MaxConn : StoreHang(i)
  \/ Join

Spec == Init /\ [][Next]_vars


\* The handler's continuations run once enabled; a connector call that has
\* not been marked as hanging settles.
FairSpec ==
  /\ Spec
  /\ WF_vars(Join)
  /\ WF_vars(\E o \in DetectOutcomes : DetectSettle(o))
  /\ \A i \in 1..MaxConn :
       /\ WF_vars(\E o \in HealthOutcomes : HealthSettle(i, o))
       /\ WF_vars(\E o \in StoreOutcomes : StoreSettle(i, o))

\* getHealthStatus() on a registry that register() may change meanwhile.
HealthNext ==
  \/ \E c \in Conn : Register(c)
  \/ GetHealthStatus
  \/ \E o \in HealthOutcomes : CheckHealthSettle(o)
  \/ CheckHealthHang

HealthSpec == Init /\ [][HealthNext]_vars

\* One store() or health() call on a connector, with every answer of the
\* Linear API or of the database.
ConnNext ==
  \/ \E op \in {"store", "health"} : LinearCall(op)
  \/ \E e \in FetchRejections : FetchReject(e)
  \/ \E status \in Statuses : \E statusText \in StatusTexts(status) :
       FetchResponse(status, statusText)
  \/ \E body \in Bodies : JsonSettle(body)
  \/ \E op \in {"store", "health"}, deps \in Deps : AstroDbCall(op, deps)
  \/ \E o \in DbOutcomes : QuerySettle(o)

ConnSpec == Init /\ [][ConnNext]_vars

\* One call of the environment adapter or of createFromEnvironment, over
\* every context and every process.env.
EnvNext ==
  \/ \E key \in EnvKeys \cup {OtherKey}, context \in Contexts, processEnv \in ProcessEnvs :
       GetEnv(key, context, processEnv)
  \/ \E context \in Contexts, processEnv \in ProcessEnvs :
       GetEnvironmentVariables(context, processEnv)
  \/ \E context \in Contexts, processEnv \in ProcessEnvs :
       GetLinearConfig(context, processEnv)
  \/ \E cloudflare \in Contexts, astrodb \in AstroDbs, processEnv \in ProcessEnvs :
       CreateFromEnvironment(cloudflare, astrodb, processEnv)

EnvSpec == Init /\ [][EnvNext]_vars

\* One request to the endpoint: the handler is built from the environment
\* and its connectors answer as LinearConnector, AstroDbConnector and
\* MockConnector do; a request to Linear or to the database may never settle.
EndpointNext ==
  \/ \E method \in {"POST", "GET"}, body \in RequestBodies, processEnv \in EndpointEnvs :
       Post(method, body, processEnv)
  \/ ParseBody
  \/ \E astrodb \in AstroDbs : ImportSettle(astrodb)
  \/ CreateHandler
  \/ req.pc = "process" /\ ProcessFeedback
  \/ pc = "detect" /\ \E o \in DetectOutcomesOf(connector.name) : DetectSettle(o)
  \/ \E i \in 1..Len(tasks) :
       \E o \in HealthOutcomesOf(tasks[i].conn.name, req.astrodb.deps) : HealthSettle(i, o)
  \/ \E i \in 1..Len(tasks) : tasks[i].conn.name # "mock" /\ HealthHang(i)
  \/ \E i \in 1..Len(tasks) :
       \E o \in StoreOutcomesOf(tasks[i].conn.name) : StoreSettle(i, o)
  \/ \E i \in 1..Len(tasks) : tasks[i].conn.name # "mock" /\ StoreHang(i)
  \/ Join
  \/ Respond

EndpointSpec == Init /\ [][EndpointNext]_vars

\* register() at any time beside one call of the handler: a processFeedback,
\* a getHealthStatus, or getRegisteredConnectors.
HandlerNext ==
  \/ \E c \in Conn : Register(c)
  \/ hc.pc = "idle" /\ names = <<>> /\ ProcessFeedback
  \/ \E o \in DetectOutcomes : DetectSettle(o)
  \/ DetectHang
  \/ \E i \in 1..MaxConn, o \in HealthOutcomes : HealthSettle(i, o)
  \/ \E i \in 1..MaxConn : HealthHang(i)
  \/ \E i \in 1..MaxConn, o \in StoreOutcomes : StoreSettle(i, o)
  \/ \E i \in 1..MaxConn : StoreHang(i)
  \/ Join
  \/ pc = "idle" /\ names = <<>> /\ GetHealthStatus
  \/ \E o \in HealthOutcomes : CheckHealthSettle(o)
  \/ CheckHealthHang
  \/ pc = "idle" /\ hc.pc = "idle" /\ GetRegisteredConnectors

HandlerSpec == Init /\ [][HandlerNext]_vars

\* Two submissions on one handler, their steps interleaved in any order; the
\* connectors are registered under distinct names before the first one starts.
\* Each connector call has one resolving-true, one resolving-false and one
\* throwing or rejecting outcome.
TwoNext ==
  \/ \E c \in Conn :
       /\ Len(registry) < MaxShared
       /\ c = Len(registry) + 1
       /\ \A x \in Submissions : calls[x].pc = "idle"
       /\ Register(c)
  \/ \E c \in Submissions, cid \in CorrelationIds : Submit(c, cid)
  \/ \E c \in Submissions, o \in {"true", "false", "reject"} :
       SubmissionDetectSettle(c, o)
  \/ \E c \in Submissions, i \in 1..MaxConn, o \in {"true", "false", "throw"} :
       SubmissionHealthSettle(c, i, o)
  \/ \E c \in Submissions, i \in 1..MaxConn, o \in {"ok", "failRetry", "reject"} :
       SubmissionStoreSettle(c, i, o)
  \/ \E c \in Submissions : SubmissionJoin(c)

TwoSpec == Init /\ [][TwoNext]_vars

\* One page with the feedback modal: the user's events, the responses to the
\* requests and the timers, in any order.
ModalNext ==
  \/ \E v \in PageOverflows : PageSetsOverflow(v)
  \/ OpenModal
  \/ \E by \in {"escape", "button", "backdrop", "api"} : CloseModal(by)
  \/ \E category \in CategoryValues, comment \in CommentValues : Fill(category, comment)
  \/ HandleSubmit
  \/ \E i \in 1..MaxSubmits, o \in FetchOutcomes : FetchSettle(i, o)
  \/ AutoClose
  \/ HandleRetry

ModalSpec == Init /\ [][ModalNext]_vars

\* One page with the feedback widget: clicks, their timers, and the modal's
\* script running at some moment or never.
WidgetNext ==
  \/ ModalAvailable
  \/ \E jitter \in Jitters : HandleClick(jitter)
  \/ \E k \in 1..MaxClicks, jitter \in Jitters : RetryTimer(k, jitter)

WidgetSpec == Init /\ [][WidgetNext]_vars

\* Every timer fires.
WidgetFairSpec ==
  /\ WidgetSpec
  /\ \A k \in 1..MaxClicks : WF_vars(\E jitter \in Jitters : RetryTimer(k, jitter))

\* Every fetch settles and every timer fires.
ModalFairSpec ==
  /\ ModalSpec
  /\ WF_vars(\E i \in 1..MaxSubmits, o \in FetchOutcomes : FetchSettle(i, o))
  /\ WF_vars(AutoClose)

\* ----------------------------------------------------------------- claims
Returned == pc = "done" /\ settled = "resolved"

Attempted == Len(tasks) > 0

Entries == result.results

\* C1: a processFeedback call that attempted at least one connector returns
\* success = true exactly when some entry of results has success = true.
C1_SuccessIffSomeEntry ==
  (Returned /\ Attempted) =>
     /\ Len(Entries) > 0
     /\ result.success = (\E i \in 1..Len(Entries) : Entries[i].success)
     /\ (\A i \in 1..Len(tasks) : tasks[i].store # "ok") => ~result.success

\* Both attempted connectors failed, the call returned.
C1_Witness_AllFailed ==
  /\ Returned
  /\ Len(Entries) = 2
  /\ \A i \in 1..2 : ~Entries[i].success
  /\ ~result.success

\* C2: with N >= 2 connectors dispatched, one store() throwing or rejecting
\* and another store() returning success, the call returns success = true and
\* the throwing connector has an entry with success = false.
C2_ThrowingStoreIsolated ==
  Returned =>
    \A i, j \in 1..Len(tasks) :
      (i # j /\ Throws(tasks[i].store) /\ tasks[j].store = "ok") =>
         /\ result.success
         /\ Len(Entries) = Len(tasks)
         /\ Entries[i].connector = available[i].name
         /\ ~Entries[i].success
         /\ Entries[j].success

\* The first connector's store() threw, the second stored, the call returned.
C2_Witness_ThrowAndSuccess ==
  /\ Returned
  /\ Len(tasks) = 2
  /\ Throws(tasks[1].store)
  /\ tasks[2].store = "ok"

\* C3: with an empty registry, or every probed detect() returning false, the
\* call resolves with success = false, the fixed error message and no entries.
C3_NoConnectorsAvailable ==
  (pc = "done" /\ \A k \in 1..Len(probes) : probes[k].outcome = "false") =>
     /\ settled = "resolved"
     /\ ~result.success
     /\ result.error = "No storage connectors available"
     /\ Entries = <<>>

\* Two registered connectors both answered detect() with false.
C3_Witness_AllDetectFalse ==
  /\ pc = "done"
  /\ Len(probes) = 2
  /\ \A k \in 1..2 : probes[k].outcome = "false"

\* C4: a connector whose detect() threw is unavailable, not failed: no task
\* (so no store() call) and no entry; every connector whose detect() returned
\* true is dispatched to and, once the call returns, has its entry.
C4_DetectThrowExcluded ==
  pc \in {"fanout", "done"} =>
    \A k \in 1..Len(probes) :
      /\ Throws(probes[k].outcome) =>
           /\ \A i \in 1..Len(available) : available[i].name # probes[k].connector
           /\ \A i \in 1..Len(Entries) : Entries[i].connector # probes[k].connector
      /\ probes[k].outcome = "true" =>
           /\ \E i \in 1..Len(tasks) : available[i].name = probes[k].connector
           /\ Returned =>
                \E i \in 1..Len(Entries) : Entries[i].connector = probes[k].connector

\* One detect() returned true, a later one threw, the call returned with the
\* single entry of the first.
C4_Witness_ThrowAfterTrue ==
  /\ Returned
  /\ Len(probes) = 2
  /\ probes[1].outcome = "true"
  /\ Throws(probes[2].outcome)
  /\ Len(Entries) = 1

\* C5: processFeedback never rejects; whenever it settles it resolved to a
\* result carrying the call's correlation id, a boolean success and a list
\* of entries, whatever the connectors answered.
C5_NeverRejects ==
  /\ settled \in {"pending", "resolved"}
  /\ (pc = "done") = (settled = "resolved")
  /\ settled = "resolved" =>
       /\ result.present
       /\ result.correlationId \in CorrelationIds
       /\ result.correlationId = correlationId
       /\ result.success \in BOOLEAN
       /\ Len(result.results) \in 0..Len(registry)

\* The call settled although one connector's detect() threw and every
\* dispatched task ended in a throwing health() or store().
C5_Witness_SettledDespiteThrows ==
  /\ settled = "resolved"
  /\ \E k \in 1..Len(probes) : Throws(probes[k].outcome)
  /\ Len(tasks) > 0
  /\ \A i \in 1..Len(tasks) : Throws(tasks[i].health) \/ Throws(tasks[i].store)

\* C6: when at least one connector is available, results has one entry per
\* connector detectAvailable() returned, the i-th entry named after the i-th
\* available connector, in whatever order the tasks settled.
C6_OneEntryPerAvailable ==
  (Returned /\ Len(available) > 0) =>
     /\ Len(Entries) = Len(available)
     /\ \A i \in 1..Len(available) : Entries[i].connector = available[i].name
     /\ \A i, j \in 1..Len(Entries) :
          i # j => Entries[i].connector # Entries[j].connector

\* Two connectors registered, only the second available, the call returned.
C6_Witness_SecondOnly ==
  /\ Returned
  /\ Len(registry) = 2
  /\ Len(available) = 1
  /\ available[1] = registry[2]
  /\ Len(Entries) = 1

\* C7: the fan-out is not serialized: once the handler has dispatched, the
\* health() of every available connector has been called, and the step that
\* takes a connector from its health() answer to its store() call is enabled
\* whatever state the other connectors' calls are in.
C7_NotSerialized ==
  pc = "fanout" =>
    \A b \in 1..Len(tasks) :
      /\ tasks[b].health # "notcalled"
      /\ tasks[b].health = "pending" => ENABLED HealthSettle(b, "true")

\* store() of the second connector is in flight while health() of the first
\* has not settled.
C7_Witness_StoreDuringOtherHealth ==
  /\ pc = "fanout"
  /\ Len(tasks) = 2
  /\ tasks[1].health \in {"pending", "hung"}
  /\ tasks[2].store = "pending"

\* C8: processFeedback returns only after every dispatched operation has
\* settled: at the return no health() or store() of this call is in flight.
C8_ReturnsAfterAllSettled ==
  Returned =>
    \A i \in 1..Len(tasks) :
      /\ Settled(tasks[i])
      /\ tasks[i].health \notin {"pending", "hung", "notcalled"}
      /\ tasks[i].store \notin {"pending", "hung"}

\* The call returned after two tasks settled, one a failure, one a success.
C8_Witness_ReturnedAfterTwo ==
  /\ Returned
  /\ Len(tasks) = 2
  /\ ~Entries[1].success
  /\ Entries[2].success

\* A connector call of task i will never settle.
Hung(i) == tasks[i].health = "hung" \/ tasks[i].store = "hung"

\* C9: one unresponsive backend cannot stall a submission: when one
\* connector's health() or store() never settles and every other task has
\* settled, processFeedback still returns, with that connector's entry a
\* failure with retryable = true.
C9_HungConnectorBounded ==
  (/\ pc = "fanout"
   /\ \E i \in 1..Len(tasks) :
        /\ Hung(i)
        /\ \A j \in 1..Len(tasks) : j # i => Settled(tasks[j]))
    ~> (/\ Returned
        /\ \A i \in 1..Len(tasks) :
             Hung(i) => ~Entries[i].success /\ Entries[i].retryable = "true")

\* C10: a failing health check neither blocks nor fails the store attempt:
\* once health() settled (true, false or a throw) store() has been called,
\* and the entry's success is the outcome of store().
C10_HealthFailureStillStores ==
  \A i \in 1..Len(tasks) :
    tasks[i].health \in HealthOutcomes =>
      /\ tasks[i].store # "notcalled"
      /\ Settled(tasks[i]) => (tasks[i].entry.success = (tasks[i].store = "ok"))

\* store() of task i returned a StorageResult.
StoreReturned(i) == tasks[i].store \in {"ok", "failRetry", "failNoRetry", "failSilent"}

\* C11 as stated: each entry's healthy flag is the value health() returned,
\* whether store() succeeded, returned a failure or threw.
C11_HealthyEqualsHealth ==
  Returned =>
    \A i \in 1..Len(tasks) :
      tasks[i].health \in {"true", "false"} =>
        Entries[i].healthy = (tasks[i].health = "true")

\* C11 as amended: the healthy flag is the value health() returned whenever
\* store() returned a StorageResult (a success or a failure); when store()
\* threw or rejected, the flag is false whatever health() returned.
C11_HealthyWhenStoreReturned ==
  Returned =>
    \A i \in 1..Len(tasks) :
      /\ StoreReturned(i) => Entries[i].healthy = (tasks[i].health = "true")
      /\ Throws(tasks[i].store) => ~Entries[i].healthy

\* An unhealthy connector stored and a healthy one returned a failure.
C11_Witness_HealthAndStoreDiffer ==
  /\ Returned
  /\ Len(tasks) = 2
  /\ tasks[1].health = "false" /\ tasks[1].store = "ok"
  /\ tasks[2].health = "true" /\ tasks[2].store = "failRetry"

\* The connectors detect() answered true for, as detectAvailable() saw them.
TrueProbes ==
  LET s == SelectSeq(probes, LAMBDA p : p.outcome = "true") IN
    [k \in 1..Len(s) |-> [name |-> s[k].connector, id |-> s[k].id]]

\* detect() has been called on a connector named n during this call.
Probed(n) == \E k \in 1..Len(probes) : probes[k].connector = n

\* C12: the connectors dispatched to are fixed when detectAvailable()
\* returns: each task runs on, and calls store() on, the connector object that
\* was probed; a connector registered or re-registered later has no task, is
\* not stored to and has no entry in the result.
C12_DispatchSetFixed ==
  pc \in {"fanout", "done"} =>
    /\ available = TrueProbes
    /\ Len(tasks) = Len(available)
    /\ \A i \in 1..Len(tasks) :
         /\ tasks[i].conn = available[i]
         /\ tasks[i].store # "notcalled" => tasks[i].storedTo = available[i].id
    /\ \A k \in 1..Len(registry) :
         (\A i \in 1..Len(available) : available[i] # registry[k]) =>
            \A i \in 1..Len(tasks) : tasks[i].storedTo # registry[k].id
    /\ Returned =>
         /\ Len(Entries) = Len(available)
         /\ \A i \in 1..Len(Entries) : Entries[i].connector = available[i].name
         /\ \A k \in 1..Len(registry) :
              ~Probed(registry[k].name) =>
                 \A i \in 1..Len(Entries) : Entries[i].connector # registry[k].name

\* The only available connector was re-registered under its name after its
\* detect() was called; the call stored to the original and returned.
C12_Witness_ReRegisteredInFlight ==
  /\ Returned
  /\ Len(available) = 1
  /\ tasks[1].store = "ok"
  /\ getByName(registry, available[1].name).id > available[1].id

\* A connector was registered after detectAvailable() returned (it was never
\* probed) and the call returned.
C12_Witness_RegisteredAfterDetect ==
  /\ Returned
  /\ Len(available) = 1
  /\ tasks[1].store = "ok"
  /\ \E k \in 1..Len(registry) : ~Probed(registry[k].name)

C13_LoopCoversRegistry ==
  [][(pc \in {"idle", "detect"} /\ pc' \in {"fanout", "done"}) =>
        Len(probes') = Len(registry')]_vars

DetectInvoked(n) ==
  \/ pc \in {"detect", "detectHung"} /\ connector.name = n
  \/ Probed(n)

\* C14: detection probes are independent: while detectAvailable() runs,
\* the detect() of every registered connector is eventually invoked, even when
\* the detect() of a connector registered earlier never settles.
C14_ProbesIndependent ==
  \A n \in Conn :
    (pc \in {"detect", "detectHung"} /\ InRegistry(n)) ~> DetectInvoked(n)

\* The names register() has been called with.
RegisteredNames == {n \in Conn : lastReg[n] # 0}

\* C15: after any sequence of register() calls, getByName(n) is the
\* connector most recently registered under n, and is null (no exception) for
\* a name never registered; getAllConnectors() holds exactly one connector per
\* distinct registered name.
C15_LastWriteWins ==
  /\ \A n \in RegisteredNames :
       getByName(registry, n) = [name |-> n, id |-> lastReg[n]]
  /\ \A n \in (Conn \cup {0}) \ RegisteredNames :
       getByName(registry, n) = NoConnector
  /\ Len(getAllConnectors(registry)) = Cardinality(RegisteredNames)
  /\ \A n \in RegisteredNames :
       Cardinality({k \in 1..Len(registry) : getAllConnectors(registry)[k].name = n}) = 1
  /\ \A k \in 1..Len(registry) : registry[k].name \in RegisteredNames

\* The same name was registered twice: one connector is held, the second.
C15_Witness_ReRegistered ==
  /\ RegCount = 2
  /\ Len(getAllConnectors(registry)) = 1
  /\ getByName(registry, registry[1].name).id = 2
  /\ \E n \in Conn : getByName(registry, n) = NoConnector

\* getHealthStatus() returned.
HealthReturned == hc.pc = "done"

\* The last answer the health() of the connector named n gave in this
\* checkHealth() call.
LastAnswer(n) ==
  LET ks == {k \in 1..Len(hc.answers) : hc.answers[k].connector = n}
  IN  hc.answers[CHOOSE k \in ks : \A j \in ks : j <= k].outcome

\* What getHealthStatus() resolves to, given the registry at that moment.
HealthMapExact ==
  /\ hc.settled = "resolved"
  /\ Len(hc.answers) = Len(registry)
  /\ \A n \in Conn : InRegistry(n) <=> hc.healthResults[n] # "unset"
  /\ \A n \in Conn :
       InRegistry(n) =>
          hc.healthResults[n] = IF LastAnswer(n) = "true" THEN "true" ELSE "false"

\* C16: checkHealth(), and getHealthStatus() through it, resolves to a
\* map with exactly one key per registered connector name; the value is the
\* boolean the connector's health() returned, or false if it threw; a throwing
\* health() neither aborts the batch (the loop goes on to the next connector)
\* nor makes checkHealth() throw.
C16_CheckHealthCoversAll ==
  /\ [](hc.settled # "rejected")
  /\ [](hc.pc \in {"health", "healthHung"} =>
          /\ hc.i = Len(hc.answers) + 1
          /\ hc.i <= Len(registry)
          /\ hc.connector.name = registry[hc.i].name)
  /\ [][(hc.pc # "done" /\ hc'.pc = "done") => HealthMapExact']_vars

\* Of two connectors the first one's health() threw and the second one's
\* returned true; the map holds false and true.
C16_Witness_ThrowThenTrue ==
  /\ HealthReturned
  /\ Len(hc.answers) = 2
  /\ Throws(hc.answers[1].outcome)
  /\ hc.answers[2].outcome = "true"
  /\ hc.healthResults[hc.answers[1].connector] = "false"
  /\ hc.healthResults[hc.answers[2].connector] = "true"

\* The connector call in flight has returned.
CallDone(connectorName, op) ==
  call.pc = "done" /\ call.connector = connectorName /\ call.op = op

\* The causes of a failed Linear request, by class.
NetworkFailure == call.rejection.kind = "Error"

RateLimited == call.status = 429

AuthenticationMessages ==
  {"Authentication required, not authenticated", "Authentication failed"}

AuthFailure ==
  \/ call.status \in {401, 403}
  \/ /\ ok(call.status)
     /\ call.body.parsed
     /\ Len(call.body.errors) > 0
     /\ call.body.errors[1] \in AuthenticationMessages

\* C18: a failed LinearConnector.store reports retryable=true for a
\* network-class or rate-limit-class failure (fetch rejected, HTTP 429),
\* retryable=false for an authentication/authorization-class one (HTTP 401 or
\* 403, authentication error of the API), and retryable=true for a failure of
\* none of these classes.
C18_RetryableByClass ==
  (CallDone("linear", "store") /\ ~call.out.success) =>
     /\ NetworkFailure \/ RateLimited => call.out.retryable = "true"
     /\ AuthFailure => call.out.retryable = "false"
     /\ ~NetworkFailure /\ ~RateLimited /\ ~AuthFailure => call.out.retryable = "true"

\* A store() answered with HTTP 403 is reported as not retryable.
C18_Witness_Forbidden ==
  /\ CallDone("linear", "store")
  /\ call.status = 403
  /\ ~call.out.success
  /\ call.out.retryable = "false"

\* An error was raised while the connector call ran: the request failed, the
\* status was not ok, the answer did not parse or carried errors, the issue
\* was not created, the database was not initialized or the query failed.
Faulted ==
  \/ call.rejection # NoError
  \/ call.status # 0 /\ ~ok(call.status)
  \/ /\ call.connector = "linear" /\ call.pc = "done" /\ ok(call.status)
     /\ \/ JsonError(call.body) # NoError
        \/ call.op = "store" /\ call.body.issueCreate # "created"
  \/ /\ call.connector = "astrodb" /\ call.pc = "done"
     /\ \/ "db" \notin call.deps
        \/ "Feedback" \notin call.deps
        \/ call.op = "health" /\ "sql" \notin call.deps
        \/ call.db \in {"reject", "throw"}

\* C19: store() of LinearConnector and of AstroDbConnector never throws
\* or rejects; every error raised while storing is returned as a StorageResult
\* with success=false and the error attached.
C19_StoreNeverThrows ==
  call.op = "store" =>
    /\ call.out.settled # "rejected"
    /\ call.pc = "done" =>
         /\ call.out.settled = "resolved"
         /\ Faulted => /\ ~call.out.success
                       /\ call.out.error # NoError
         /\ call.rejection # NoError => call.out.error = call.rejection
         /\ (call.status # 0 /\ ~ok(call.status)) =>
               call.out.error = HttpError(call.status, call.statusText)
         /\ ~Faulted => call.out.success /\ call.out.error = NoError

\* A Linear store() whose fetch() was rejected returned a failure carrying
\* the rejection.
C19_Witness_NetworkFailureReturned ==
  /\ CallDone("linear", "store")
  /\ call.rejection.kind = "Error"
  /\ call.out.settled = "resolved"
  /\ ~call.out.success
  /\ call.out.error = call.rejection

\* C20: health() of LinearConnector and of AstroDbConnector never throws
\* or rejects; any failure of the probe resolves to false.
C20_HealthNeverThrows ==
  call.op = "health" =>
    /\ call.out.settled # "rejected"
    /\ call.pc = "done" =>
         /\ call.out.settled = "resolved"
         /\ call.out.value \in {"true", "false"}
         /\ Faulted => call.out.value = "false"

\* A Linear health() answered with HTTP 500 resolved to false.
C20_Witness_ServerErrorIsFalse ==
  /\ CallDone("linear", "health")
  /\ call.status = 500
  /\ call.out.settled = "resolved"
  /\ call.out.value = "false"

\* C25: the result's top-level error is set only when no connector was
\* attempted: with at least one available connector error is absent, even when
\* every attempt failed; and whenever results is empty, success is false and
\* error is set.
C25_TopLevelErrorOnlyUnattempted ==
  Returned =>
    /\ Len(available) > 0 => result.error = Undefined
    /\ result.error # Undefined => Len(available) = 0 /\ Len(Entries) = 0
    /\ Len(Entries) = 0 => ~result.success /\ result.error # Undefined

\* Two connectors were attempted and both failed; the result has no
\* top-level error.
C25_Witness_AllAttemptsFailed ==
  /\ Returned
  /\ Len(Entries) = 2
  /\ \A i \in 1..2 : ~Entries[i].success
  /\ ~result.success
  /\ result.error = Undefined

\* C28: within one processFeedback call detect() is invoked once on each
\* registered connector (no connector twice, and every connector registered
\* when detectAvailable() returns has been probed), store() is invoked at most
\* once on each available connector and never again after a failure, and never
\* on a connector whose detect() returned false or threw.
C28_AttemptOnce ==
  /\ [](/\ \A j, k \in 1..Len(probes) :
             j # k => probes[j].connector # probes[k].connector
        /\ pc \in {"detect", "detectHung"} => ~Probed(connector.name)
        /\ \A i, j \in 1..Len(tasks) : i # j => tasks[i].conn # tasks[j].conn
        /\ \A i \in 1..Len(tasks) :
             /\ tasks[i].storeCalls <= 1
             /\ tasks[i].storeCalls = 1 <=> tasks[i].store # "notcalled"
             /\ tasks[i].storeCalls = 1 =>
                  \E k \in 1..Len(probes) :
                     /\ probes[k].id = tasks[i].storedTo
                     /\ probes[k].outcome = "true"
        /\ \A k \in 1..Len(probes) :
             probes[k].outcome # "true" =>
                \A i \in 1..Len(tasks) : tasks[i].storedTo # probes[k].id)
  /\ [][(pc \in {"idle", "detect"} /\ pc' \in {"fanout", "done"}) =>
          \A k \in 1..Len(registry') :
             Cardinality({j \in 1..Len(probes') :
                            probes'[j].connector = registry'[k].name}) = 1]_vars

\* Of two connectors only the first was available; its store() returned a
\* retryable failure and was called once, the second was never stored to.
C28_Witness_FailedOnceNotRetried ==
  /\ Returned
  /\ Len(probes) = 2
  /\ probes[1].outcome = "true"
  /\ probes[2].outcome \in {"false", "throw"}
  /\ Len(tasks) = 1
  /\ tasks[1].store = "failRetry"
  /\ tasks[1].storeCalls = 1

\* An entry is either a success without error or a failure with an error
\* message.
WellFormed(e) ==
  \/ e.success /\ e.error = Undefined
  \/ ~e.success /\ e.error # Undefined

\* C30: every entry of results is either success=true without error or
\* success=false with an error message, whenever the connector's store() threw
\* or returned a StorageResult that is itself of one of these two forms.
C30_EntryWellFormed ==
  Returned =>
    \A i \in 1..Len(Entries) :
      (\/ tasks[i].store = "notcalled"
       \/ Throws(tasks[i].store)
       \/ WellFormed(StorageResultOf(tasks[i].store))) =>
         WellFormed(Entries[i])

\* One store() threw and one succeeded: a failure entry with the message and
\* a success entry without error.
C30_Witness_ThrowAndSuccess ==
  /\ Returned
  /\ Len(Entries) = 2
  /\ tasks[1].store = "throw"
  /\ ~Entries[1].success /\ Entries[1].error = ThrownMessage
  /\ tasks[2].store = "ok"
  /\ Entries[2].success /\ Entries[2].error = Undefined

\* The source the adapter has to read for the context of the call: the
\* context's env map when there is one, process.env otherwise.
OneSource ==
  IF envq.context.given /\ envq.context.hasEnv THEN envq.context.env ELSE envq.processEnv

\* C29: credential resolution uses exactly one source. With a context
\* carrying an env map, getEnv, getEnvironmentVariables and getLinearConfig
\* read only that map: a key absent from it is undefined, and the result is the
\* same for every process.env. With no context, or a context without env, they
\* read only process.env: the result is the same for every context env map.
C29_OneCredentialSource ==
  /\ envq.op = "getEnv" =>
       /\ envq.value = Lookup(OneSource, envq.key)
       /\ envq.context.hasEnv =>
            \A p \in ProcessEnvs : getEnv(envq.key, envq.context, p) = envq.value
       /\ ~envq.context.hasEnv =>
            \A e \in ContextEnvs :
               getEnv(envq.key, [envq.context EXCEPT !.env = e], envq.processEnv)
                 = envq.value
  /\ envq.op = "getEnvironmentVariables" =>
       /\ envq.variables = OneSource
       /\ envq.context.hasEnv =>
            \A p \in ProcessEnvs :
               getEnvironmentVariables(envq.context, p) = envq.variables
  /\ envq.op = "getLinearConfig" =>
       /\ \A k \in {"apiKey", "teamId", "projectId"} :
            envq.config[k] \in {Undefined, "from-process-env", "from-context-env"}
       /\ envq.context.hasEnv =>
            /\ \A p \in ProcessEnvs : getLinearConfig(envq.context, p) = envq.config
            /\ \A k \in {"apiKey", "teamId", "projectId"} :
                 envq.config[k] # "from-process-env"
       /\ ~envq.context.hasEnv =>
            \A k \in {"apiKey", "teamId", "projectId"} :
               envq.config[k] # "from-context-env"

\* getEnv was asked for a key that the context's env map lacks and that
\* process.env sets; it answered undefined.
C29_Witness_AbsentKeyIsUndefined ==
  /\ envq.op = "getEnv"
  /\ envq.context.hasEnv
  /\ envq.key \in EnvKeys
  /\ envq.context.env[envq.key] = Undefined
  /\ envq.processEnv[envq.key] = "from-process-env"
  /\ envq.value = Undefined

\* The names of the connectors createFromEnvironment registered.
RegisteredByEnvironment == {envq.registry[k].name : k \in 1..Len(envq.registry)}

\* C23: createFromEnvironment registers the Linear connector iff the API
\* key and the team id both resolve to non-empty values, the Astro DB connector
\* iff dependencies were supplied and its detect() returned true, and the mock
\* connector iff neither was registered: the handler has at least one
\* connector and never the mock beside a real one.
C23_ConnectorsByEnvironment ==
  envq.op = "createFromEnvironment" =>
    /\ "linear" \in RegisteredByEnvironment <=>
         /\ Truthy(Lookup(OneSource, "LINEAR_API_KEY"))
         /\ Truthy(Lookup(OneSource, "LINEAR_TEAM_ID"))
    /\ "astrodb" \in RegisteredByEnvironment <=>
         envq.astrodb.given /\ AstroDbDetect(envq.astrodb.deps)
    /\ "mock" \in RegisteredByEnvironment <=>
         /\ "linear" \notin RegisteredByEnvironment
         /\ "astrodb" \notin RegisteredByEnvironment
    /\ Len(envq.registry) >= 1
    /\ Len(envq.registry) = Cardinality(RegisteredByEnvironment)
    /\ RegisteredByEnvironment \subseteq {"linear", "astrodb", "mock"}

\* Linear credentials in the context's env map and a usable database: both
\* real connectors are registered, the mock is not.
C23_Witness_BothRealConnectors ==
  /\ envq.op = "createFromEnvironment"
  /\ envq.context.hasEnv
  /\ Len(envq.registry) = 2
  /\ envq.registry[1].name = "linear"
  /\ envq.registry[2].name = "astrodb"

\* The request is a POST whose body passes FeedbackSchema.
ValidRequest ==
  /\ req.method = "POST"
  /\ req.body.json /\ req.body.object
  /\ req.body.page = "/docs/page"
  /\ req.body.category = "Bug"
  /\ req.body.comment = "A comment"
  /\ req.body.timestamp = "2024-05-01T10:00:00.000Z"

\* C21: validation precedes dispatch. For a request whose body is not
\* valid JSON or fails FeedbackSchema, no handler is built and no connector's
\* detect(), health() or store() is invoked, and the answer is 400, with
\* retryable=false for a validation failure.
C21_ValidationPrecedesDispatch ==
  (req.method = "POST" /\ ~ValidRequest) =>
     /\ req.pc \in {"json", "responded"}
     /\ req.astroDetects = 0
     /\ registry = <<>>
     /\ pc = "idle" /\ probes = <<>> /\ tasks = <<>>
     /\ req.pc = "responded" =>
          /\ req.response.status = 400
          /\ ~req.response.success
          /\ req.response.error # Undefined
          /\ req.body.json => req.response.retryable = "false"

\* A body without page was answered 400 with the first issue's message.
C21_Witness_MissingField ==
  /\ req.pc = "responded"
  /\ req.method = "POST"
  /\ req.body.object
  /\ req.body.page = Undefined
  /\ req.body.comment = "A comment"
  /\ req.response.status = 400
  /\ req.response.error = "Required"
  /\ req.response.retryable = "false"

\* C22: for a request whose body passes validation the endpoint answers
\* 200 with id equal to the handler's correlationId when processFeedback
\* reports success, and 500 otherwise; the 500 body has error set and
\* retryable=true iff at least one per-connector result has retryable=true.
C22_ResponseFollowsResult ==
  (req.pc = "responded" /\ ValidRequest) =>
     /\ Returned
     /\ result.success =>
          /\ req.response.status = 200
          /\ req.response.success
          /\ req.response.id = correlationId
          /\ req.response.id = result.correlationId
     /\ ~result.success =>
          /\ req.response.status = 500
          /\ ~req.response.success
          /\ req.response.error # Undefined
          /\ req.response.retryable \in {"true", "false"}
          /\ req.response.retryable = "true" <=>
               \E i \in 1..Len(Entries) : Entries[i].retryable = "true"

\* Both connectors failed, Linear for good and the database retryably: the
\* answer is 500 with retryable=true.
C22_Witness_MixedFailures ==
  /\ req.pc = "responded"
  /\ Len(Entries) = 2
  /\ Entries[1].retryable = "false"
  /\ Entries[2].retryable = "true"
  /\ req.response.status = 500
  /\ req.response.retryable = "true"

\* The server has no Linear credentials and astro:db could not be imported.
ZeroConfiguration ==
  /\ ~(Truthy(req.processEnv["LINEAR_API_KEY"]) /\ Truthy(req.processEnv["LINEAR_TEAM_ID"]))
  /\ ~req.astrodb.given

\* C24: a handler built by createFromEnvironment with no Linear
\* credentials and no database dependencies accepts the submission:
\* processFeedback returns success=true with exactly one entry, produced by the
\* mock connector, which is always available and never fails or hangs.
C24_ZeroConfigurationFallback ==
  (req.pc \in {"process", "responded"} /\ ValidRequest /\ ZeroConfiguration) =>
     /\ Len(registry) = 1 /\ registry[1].name = "mock"
     /\ names = <<"mock">>
     /\ pc # "detectHung"
     /\ \A i \in 1..Len(tasks) : ~Hung(i)
     /\ pc = "done" =>
          /\ settled = "resolved"
          /\ result.success
          /\ result.error = Undefined
          /\ Len(Entries) = 1
          /\ Entries[1].connector = "mock"
          /\ Entries[1].success
     /\ req.pc = "responded" => req.response.status = 200

\* A submission to a server with an empty environment was answered 200 by
\* way of the mock connector.
C24_Witness_AcceptedByMock ==
  /\ req.pc = "responded"
  /\ req.processEnv = NoEnv
  /\ ~req.astrodb.given
  /\ Len(Entries) = 1
  /\ Entries[1].connector = "mock"
  /\ req.response.status = 200

\* C27: processFeedback, detectAvailable(), checkHealth(),
\* getHealthStatus() and getRegisteredConnectors() leave the registry's
\* connectors (names and instances) unchanged; only register() modifies it.
C27_OnlyRegisterChangesRegistry ==
  [][(registry' # registry \/ lastReg' # lastReg) =>
        /\ \E c \in Conn : Register(c)
        /\ UNCHANGED feedbackCall
        /\ hc' = hc
        /\ names' = names]_vars

\* processFeedback returned although one of the two registered connectors
\* was not available; both are still registered.
C27_Witness_UnavailableStillRegistered ==
  /\ Returned
  /\ Len(registry) = 2
  /\ Len(available) = 1
  /\ \E k \in 1..2 : \A i \in 1..Len(available) : available[i].name # registry[k].name

\* The entry that the answers task t's own health() and store() calls gave
\* stand for.
OwnEntry(t) ==
  IF Throws(t.health) \/ Throws(t.store)
    THEN [success |-> FALSE, id |-> Undefined, error |-> ThrownMessage,
          retryable |-> "true", healthy |-> FALSE, metadata |-> Undefined]
    ELSE LET r == StorageResultOf(t.store) IN
           [success |-> r.success, id |-> r.id, error |-> r.error,
            retryable |-> r.retryable, healthy |-> t.health = "true",
            metadata |-> r.metadata]

\* C26: when two processFeedback calls on one handler interleave, the result
\* of each carries the correlationId that call generated and exactly one entry
\* per connector available to that call, in order, named after that connector
\* and built from what that call's own health() and store() calls answered;
\* nothing in it comes from the other call.
C26_SubmissionsIndependent ==
  \A c \in Submissions :
    calls[c].pc = "done" =>
      /\ calls[c].result.correlationId = calls[c].correlationId
      /\ Len(calls[c].result.results) = Len(calls[c].tasks)
      /\ Len(calls[c].tasks) > 0 => Len(calls[c].tasks) = Len(calls[c].available)
      /\ \A i \in 1..Len(calls[c].tasks) :
           LET e == OwnEntry(calls[c].tasks[i])
               r == calls[c].result.results[i] IN
             /\ r.connector = calls[c].available[i].name
             /\ r.success = e.success
             /\ r.id = e.id
             /\ r.error = e.error
             /\ r.retryable = e.retryable
             /\ r.healthy = e.healthy

\* C26 witness: the second submission has returned its one failed entry under
\* its own correlationId while the first, under another correlationId, has
\* its store() answered with success and has not returned yet.
C26_Witness_OverlappingDifferentOutcomes ==
  /\ calls[2].pc = "done"
  /\ Len(calls[2].result.results) = 1
  /\ ~calls[2].result.results[1].success
  /\ calls[2].tasks[1].store = "failRetry"
  /\ calls[1].pc = "fanout"
  /\ calls[1].tasks[1].st = "fulfilled"
  /\ calls[1].tasks[1].store = "ok"
  /\ calls[1].correlationId # calls[2].correlationId

\* C31: the handler passes store outcomes through unchanged.  When store()
\* returned a StorageResult, the entry's success, id, retryable and metadata
\* are those of the result and its error is the result's error message; when
\* store() threw, the entry is success=false, retryable=true with the thrown
\* Error's message, or "Unknown error" when the thrown value is not an Error.
C31_StoreOutcomePassedThrough ==
  Returned =>
    \A i \in 1..Len(Entries) :
      /\ tasks[i].store \in {"ok", "failRetry", "failNoRetry", "failSilent"} =>
           LET r == StorageResultOf(tasks[i].store) IN
             /\ Entries[i].success = r.success
             /\ Entries[i].id = r.id
             /\ Entries[i].retryable = r.retryable
             /\ Entries[i].metadata = r.metadata
             /\ Entries[i].error = r.error
      /\ tasks[i].store \in {"throw", "reject"} =>
           /\ ~Entries[i].success
           /\ Entries[i].retryable = "true"
           /\ Entries[i].error = ThrownMessage
      /\ tasks[i].store = "throwValue" =>
           /\ ~Entries[i].success
           /\ Entries[i].retryable = "true"
           /\ Entries[i].error = "Unknown error"

\* C31 witness: a call returned one entry for a store() that returned a
\* non-retryable failure with metadata and one for a store() that threw a
\* value that is not an Error.
C31_Witness_FailureAndThrownValue ==
  /\ Returned
  /\ Len(Entries) = 2
  /\ tasks[1].store = "failNoRetry"
  /\ Entries[1].retryable = "false"
  /\ Entries[1].metadata = "failure-metadata"
  /\ tasks[2].store = "throwValue"
  /\ Entries[2].error = "Unknown error"

\* C32: processFeedback passes the feedback record it was given, unmodified,
\* to store() of every available connector whose store() it calls, and the
\* record's fields are the same during and after the call as before it.
C32_FeedbackUnmodified ==
  pc # "idle" =>
    /\ feedback.given \in Feedbacks
    /\ feedback.now = feedback.given
    /\ \A i \in 1..Len(tasks) :
         tasks[i].store # "notcalled" => feedback.passed[i] = feedback.given

\* C32 witness: a call returned after store() was called on two connectors,
\* one of which threw.
C32_Witness_TwoStoresOneThrew ==
  /\ Returned
  /\ Len(tasks) = 2
  /\ tasks[1].store = "throw"
  /\ tasks[2].store = "ok"
  /\ feedback.passed[1] = feedback.given
  /\ feedback.passed[2] = feedback.given
  /\ feedback.given.comment = "teh"

\* C33: AstroDbConnector.store reports every database failure, an
\* uninitialized database included, as a returned result with success=false,
\* retryable=true and the original error.
C33_DatabaseFailureReported ==
  CallDone("astrodb", "store") =>
    /\ ("db" \notin call.deps \/ "Feedback" \notin call.deps) =>
         /\ call.out.settled = "resolved"
         /\ ~call.out.success
         /\ call.out.retryable = "true"
         /\ call.out.error = Error("Astro DB not initialized")
    /\ call.db \in {"reject", "throw", "rejectValue"} =>
         /\ call.out.settled = "resolved"
         /\ ~call.out.success
         /\ call.out.retryable = "true"
         /\ call.rejection # NoError
         /\ call.out.error = call.rejection

\* C33 witness: the insert was rejected and store() returned a retryable
\* failure carrying the rejection.
C33_Witness_InsertRejected ==
  /\ CallDone("astrodb", "store")
  /\ call.db = "reject"
  /\ call.rejection = Error("SQLITE_ERROR: no such table: Feedback")
  /\ ~call.out.success
  /\ call.out.retryable = "true"
  /\ call.out.error = call.rejection

\* The form is closed and reset: hidden, idle, category and comment empty.
ClosedAndReset ==
  /\ ~modal.open
  /\ modal.currentState = "idle"
  /\ modal.category = ""
  /\ modal.comment = ""

\* C34: a 2xx response puts the form in the success state; from there, unless
\* the user acts, the modal is eventually closed and the form reset; and
\* opening the closed modal shows the form idle with the fields as they were
\* left, so after the reset idle and empty.
C34_SuccessAutoCloses ==
  /\ [](modal.last = "2xx" => modal.currentState = "success")
  /\ (modal.currentState = "success" /\ ~modal.acted) ~> (modal.acted \/ ClosedAndReset)
  /\ [][(~modal.open /\ modal'.open) =>
          /\ modal'.currentState = "idle"
          /\ modal'.category = modal.category
          /\ modal'.comment = modal.comment]_vars

\* C34 witness: the timer of a success closed the modal and reset the form
\* without any user action since the 2xx response.
C34_Witness_AutoClosedUntouched ==
  /\ modal.last = "timer"
  /\ ~modal.acted
  /\ modal.submits > 0
  /\ ClosedAndReset

\* C35: a response that is not 2xx, or a rejected fetch, puts the form in the
\* error state; Retry returns it to idle and leaves the category and the
\* comment as entered; a submit of the idle form sends a new request and sets
\* the loading state; a 2xx response puts the form in the success state.
C35_ErrorThenRetry ==
  /\ [](modal.last \in {"non2xx", "network"} => modal.currentState = "error")
  /\ [][HandleRetry =>
          /\ modal.currentState = "error"
          /\ modal'.currentState = "idle"
          /\ modal'.category = modal.category
          /\ modal'.comment = modal.comment]_vars
  /\ [][(HandleSubmit /\ modal.currentState = "idle") =>
          /\ Len(modal'.requests) = Len(modal.requests) + 1
          /\ modal'.currentState = "loading"]_vars
  /\ [](modal.last = "2xx" => modal.currentState = "success")

\* C35 witness: within one open, a first request failed, Retry was clicked,
\* and the second request got a 2xx response: the form shows success with the
\* fields still as entered.
C35_Witness_RetriedToSuccess ==
  /\ modal.last = "2xx"
  /\ modal.currentState = "success"
  /\ modal.open
  /\ modal.opens = 1
  /\ modal.submits = 2
  /\ modal.retries = 1
  /\ modal.requests = <<>>
  /\ modal.category = "Bug"
  /\ modal.comment = "text"

\* C36: while the modal is open the body overflow is "hidden", and whenever
\* the modal goes from open to closed the body overflow is again what it was
\* before the modal was opened, after any sequence of open() and close() calls.
C36_BodyScrollRestored ==
  /\ [](modal.open => modal.overflow = "hidden")
  /\ [][(modal.open /\ ~modal'.open) => modal'.overflow = modal.before]_vars

\* C38: at most one feedback request is in flight at any time, also after the
\* modal was closed and opened again while a request was in flight.
C38_OneRequestInFlight == Len(modal.requests) <= 1

\* C39: an open modal is closed only by a user close action or by the timer
\* of a success whose submission was made, and whose response came, during
\* this same open.
C39_ClosedOnlyByOwnSuccess ==
  [][(modal.open /\ ~modal'.open) =>
       \/ modal'.last = "close"
       \/ /\ modal'.last = "timer"
          /\ Head(modal.timers).madeIn = modal.epoch
          /\ Head(modal.timers).setIn = modal.epoch]_vars

\* C37: a handler built by createFromEnvironment has at least one connector,
\* every detect() of its connectors answers true in processFeedback, and the
\* call never returns the "No storage connectors available" result: results
\* has at least one entry.
C37_AlwaysSomeConnector ==
  (req.pc = "process" \/ (req.pc = "responded" /\ pc # "idle")) =>
    /\ Len(registry) >= 1
    /\ \A k \in 1..Len(probes) : probes[k].outcome = "true"
    /\ Returned =>
         /\ result.error # "No storage connectors available"
         /\ Len(Entries) >= 1
         /\ Len(Entries) = Len(registry)

\* C37 witness: the handler was built with the Linear and the Astro DB
\* connector and its call returned two entries, both failures.
C37_Witness_TwoConnectorsBothFailed ==
  /\ req.pc = "process"
  /\ Returned
  /\ Len(registry) = 2
  /\ Len(Entries) = 2
  /\ ~Entries[1].success
  /\ ~Entries[2].success
  /\ ~result.success

\* The chain of click k has ended: the modal was opened or the chain gave up.
Ended(k) == k <= Len(widget.clicks) /\ widget.clicks[k].st \in {"opened", "gaveUp"}

\* C40: a click made while the modal API is not available ends: after the
\* check of the first waitForModal call there are at most 5 re-checks, each
\* after a delay of 50 * 2^n ms plus less than 10 ms, never above 2000 ms;
\* open() is called at most once for the click; and a chain that finds the
\* modal unavailable at the fifth re-check gives up without opening.
C40_WaitForModalTerminates ==
  /\ [](\A k \in 1..Len(widget.clicks) :
          LET c == widget.clicks[k] IN
            /\ c.currentRetry <= 5
            /\ c.checks <= 6
            /\ c.opens <= 1
            /\ c.st = "opened" <=> c.opens = 1
            /\ c.st = "waiting" =>
                 /\ c.currentRetry < 5
                 /\ c.delay >= 50 * (2 ^ c.currentRetry)
                 /\ c.delay < 50 * (2 ^ c.currentRetry) + 10
                 /\ c.delay <= 2000
            /\ c.st = "gaveUp" => c.opens = 0 /\ c.currentRetry = 5 /\ c.checks = 6
            /\ (c.currentRetry = 5 /\ ~widget.available) => c.st = "gaveUp")
  /\ \A k \in 1..MaxClicks :
       (k <= Len(widget.clicks) /\ widget.clicks[k].st = "waiting") ~> Ended(k)

\* C40 witness: one click gave up after five re-checks while the modal was
\* missing, and a later click, made before the modal was there, opened it
\* once after its third timer.
C40_Witness_GaveUpAndOpenedLate ==
  /\ Len(widget.clicks) = 2
  /\ widget.clicks[1].st = "gaveUp"
  /\ widget.clicks[1].checks = 6
  /\ widget.clicks[2].st = "opened"
  /\ widget.clicks[2].currentRetry = 3
  /\ widget.clicks[2].opens = 1

====
